---- MODULE Spec2Model ----
(***************************************************************************)
(* A model of the whatsdown connection hub (internal/server: hub.go,       *)
(* client.go, http.go; internal/models/models.go).                         *)
(*                                                                         *)
(* Go strings are modelled as sequences of byte values, Go maps as         *)
(* functions whose DOMAIN is the set of keys present, a buffered channel   *)
(* as the sequence it holds plus a closed flag.  A section of code that    *)
(* runs with h.mu held and sends on no channel is one action.  The sends   *)
(* on the clients' queues are not ordered by h.mu: those that              *)
(* handleInboundMessageWithSender performs after h.mu.Unlock() are one     *)
(* action per statement (select, close, delete), and those that            *)
(* registerClient and unregisterClient perform with h.mu held are one      *)
(* action per call of sendToClient, so that the sends of the goroutines    *)
(* interleave as they do in the program.  The read of a frame, before      *)
(* h.mu.Lock(), is an action of its own.  A Go panic ends the process: it  *)
(* is recorded in panicked and no action is enabled afterwards.            *)
(***************************************************************************)
EXTENDS Integers, Sequences, FiniteSets, TLC

(***************************************************************************)
(* Bounds of the model.                                                    *)
(***************************************************************************)
\* Capacity of a client's Send channel in the model (256 in http.go:413).
SendCap == 1
\* Number of message envelopes the readers accept in one behaviour.
MaxMsgs == 1
\* Number of typing envelopes the readers accept in one behaviour.
MaxTyping == 2
\* Number of HandleLogin calls in one behaviour.
MaxLogins == 2
\* Number of HandleLogout calls in one behaviour.
MaxLogouts == 2
\* Number of clock ticks in one behaviour.
MaxTime == 1
\* Number of message envelopes the readers accept in a behaviour of SpecLog.
MaxLogMsgs == 2

(***************************************************************************)
(* Identities (Go strings as byte sequences) and connections.              *)
(***************************************************************************)
alice == <<97>>
bob == <<98>>
carol == <<99>>
kay == <<107>>

None == "nil"
NoPanic == "none"

\* The connections of the model and the identity of the session each one
\* was opened with (session.Username, http.go:380).
Conns == {"a1", "a2", "b1", "c1", "k1"}
\* The connections the specifications below follow.
AliceConns == {"a1", "a2"}
AliceBobConns == {"a1", "b1"}
AliceCarolConns == {"a1", "c1"}
AliceKayConns == {"a1", "a2", "k1"}
ThreeConns == {"a1", "a2", "b1"}
FourConns == {"a1", "a2", "b1", "c1"}

ConnUser(c) == IF c \in {"a1", "a2"} THEN alice
               ELSE IF c = "b1" THEN bob
               ELSE IF c = "c1" THEN carol
               ELSE kay

\* Recipient strings a client may put in the "to" field of an envelope.
Recipients == {alice, bob, carol}

(***************************************************************************)
(* Go maps.                                                                *)
(***************************************************************************)
EmptyMap == [k \in {} |-> None]
Has(m, k) == k \in DOMAIN m
Put(m, k, v) == [x \in (DOMAIN m) \cup {k} |-> IF x = k THEN v ELSE m[x]]
Del(m, k) == [x \in (DOMAIN m) \ {k} |-> m[x]]

\* All orders in which a Go map range may visit the keys in S.
Orders(S) == {f \in [1..Cardinality(S) -> S] : \A i, j \in 1..Cardinality(S) : f[i] = f[j] => i = j}

(***************************************************************************)
(* models.ConvKey: sort.Strings of the two names, joined with "|".         *)
(***************************************************************************)
Bar == 124

RECURSIVE StrLess(_, _)
StrLess(a, b) ==
  IF b = <<>> THEN FALSE
  ELSE IF a = <<>> THEN TRUE
  ELSE IF Head(a) # Head(b) THEN Head(a) < Head(b)
  ELSE StrLess(Tail(a), Tail(b))

\* A variant of ConvKey that joins the names without sorting them.
ConvKey_Unsorted(a, b) == a \o <<Bar>> \o b
ConvKey(a, b) == IF StrLess(b, a) THEN b \o <<Bar>> \o a ELSE a \o <<Bar>> \o b

\* time.Time.Format(time.RFC3339): the instant truncated to whole seconds.
TicksPerSecond == 2
RFC3339(t) == t \div TicksPerSecond

VARIABLES
  Clients,        \* h.Clients: username -> connection
  Users,          \* h.Users: username -> [Online, CurrentConn, LastSeen]
  Conversations,  \* h.Conversations: conversation key -> sequence of messages
  Send,           \* Send[c]: the frames buffered in c.Send
  closed,         \* closed[c]: close(c.Send) has been executed
  typingEvents,   \* the frames buffered in h.TypingEvents
  hub,            \* what the goroutine of Hub.Run is doing
  http,           \* http[c]: position of HandleWebSocket for connection c
  rd,             \* rd[c]: position and locals of c.readPump
  wr,             \* wr[c]: position of c.writePump, its local n, and the frames it wrote to c.Conn
  sock,           \* sock[c]: state of c.Conn
  nextId,         \* number of message ids generated so far
  nTyping,        \* number of typing envelopes read so far
  now,            \* the clock read by time.Now()
  panicked,       \* the runtime panic that ended the process, or NoPanic
  enq,            \* enq[c]: every frame ever accepted by c.Send, in order
  unlockedWrites, \* call paths that wrote a hub map without holding h.mu.Lock
  overflowed,     \* connections whose queue was closed by the default branch of sendToClient
  unregistered,   \* connections that unregisterClient found registered and removed
  routes,         \* routes[id]: message id as created, where it was stored and the clients found for it
  evictions,      \* <<old, new>> for every registerClient call that found old registered
  installed,      \* connections that were registered with an open queue when registerClient returned
  sessions,       \* sessionStore.sessions: session id -> username
  logins,         \* the HandleLogin calls so far: [user, code, id, pc]
  logouts,        \* the HandleLogout calls so far: [id, user, client, pc]
  browser         \* the WebSocketClient of a browser tab: its fields, its sockets and its timers

vars == <<Clients, Users, Conversations, Send, closed, typingEvents, hub, http, rd, wr,
          sock, nextId, nTyping, now, panicked, enq, unlockedWrites, overflowed, unregistered,
          routes, evictions, installed, sessions, logins, logouts, browser>>

\* The state of the HTTP session layer.
webVars == <<sessions, logins, logouts>>

(***************************************************************************)
(* The part of the state the hub's functions work on, threaded through     *)
(* them as a record s.  Once s.panicked is set the remaining statements    *)
(* of the function do not run.                                             *)
(***************************************************************************)
HubState == [Clients |-> Clients, Users |-> Users, Send |-> Send, closed |-> closed,
             enq |-> enq, panicked |-> panicked, unlockedWrites |-> unlockedWrites,
             overflowed |-> overflowed, unregistered |-> unregistered]

\* The lock a call path holds when it reaches sendToClient.
LockHeld(path) == IF path \in {"register", "unregister"} THEN "Lock"
                  ELSE IF path = "typing" THEN "RLock" ELSE "none"

\* Envelopes: the WSMessage{Type, Payload} that sendToClient marshals.
MessageEnv(m, status) ==
  [type |-> "message", id |-> m.ID, from |-> m.From, to |-> m.To, content |-> m.Content,
   timestamp |-> RFC3339(m.Timestamp), status |-> status]
AckEnv(id) == [type |-> "ack", messageId |-> id, status |-> "delivered"]
StatusEnv(username, online) == [type |-> "status", username |-> username, online |-> online]
TypingEnv(from, isTyping) == [type |-> "typing", from |-> from, isTyping |-> isTyping]

\* select { case client.Send <- data: ... default: ... } takes the default
\* branch when the channel is open and its buffer is full.
SendWouldBlock(s, client) == ~s.closed[client] /\ Len(s.Send[client]) >= SendCap

\* case client.Send <- data: a send on a closed channel panics.
selectSend(s, client, env) ==
  IF s.panicked # NoPanic THEN s
  ELSE IF s.closed[client] THEN [s EXCEPT !.panicked = "send on closed channel"]
  ELSE [s EXCEPT !.Send[client] = Append(@, env), !.enq[client] = Append(@, env)]

\* close(client.Send): closing a closed channel panics.
closeSend(s, client) ==
  IF s.panicked # NoPanic THEN s
  ELSE IF s.closed[client] THEN [s EXCEPT !.panicked = "close of closed channel"]
  ELSE [s EXCEPT !.closed[client] = TRUE]

\* A variant of deleteClient that also marks the user offline.
deleteClient_MarksOffline(s, client, path) ==
  IF s.panicked # NoPanic THEN s
  ELSE [s EXCEPT !.Clients = Del(@, ConnUser(client)),
                 !.Users = IF Has(@, ConnUser(client))
                           THEN [@ EXCEPT ![ConnUser(client)].Online = FALSE]
                           ELSE @]

\* delete(h.Clients, client.Username) in the default branch of sendToClient.
deleteClient(s, client, path) ==
  IF s.panicked # NoPanic THEN s
  ELSE [s EXCEPT !.Clients = Del(@, ConnUser(client)),
                 !.unlockedWrites = IF LockHeld(path) = "Lock" THEN @
                                    ELSE @ \cup {[map |-> "Clients", path |-> path,
                                                  lock |-> LockHeld(path)]}]

\* close(client.Send) in the default branch of sendToClient.
closeFull(s, client) ==
  LET s1 == closeSend(s, client)
  IN IF s1.panicked # NoPanic THEN s1 ELSE [s1 EXCEPT !.overflowed = @ \cup {client}]

\* Hub.sendToClient, run without interruption (the callers that hold h.mu).
sendToClient(s, client, env, path) ==
  IF s.panicked # NoPanic THEN s
  ELSE IF SendWouldBlock(s, client)
       THEN deleteClient(closeFull(s, client), client, path)
       ELSE selectSend(s, client, env)

\* A variant of broadcastStatus that does not skip the user's own entry.
RECURSIVE broadcastStatus_OwnToo(_, _, _, _, _)
broadcastStatus_OwnToo(s, username, online, ord, path) ==
  LET RECURSIVE all(_, _)
      all(s0, keys) ==
        IF keys = {} THEN s0
        ELSE LET k == CHOOSE x \in keys : TRUE
             IN all(IF Has(s0.Clients, k)
                    THEN sendToClient(s0, s0.Clients[k], StatusEnv(username, online), path)
                    ELSE s0, keys \ {k})
  IN all(s, DOMAIN s.Clients)

\* Hub.broadcastStatus; ord is the order in which range h.Clients yields keys.
RECURSIVE broadcastStatus(_, _, _, _, _)
broadcastStatus(s, username, online, ord, path) ==
  IF ord = <<>> THEN s
  ELSE LET uname == Head(ord)
           s1 == IF uname # username /\ Has(s.Clients, uname)
                 THEN sendToClient(s, s.Clients[uname], StatusEnv(username, online), path)
                 ELSE s
       IN broadcastStatus(s1, username, online, Tail(ord), path)

\* What the peer receives besides the queued frames: the close frame, and
\* the text frame without payload that WriteMessage sends for a nil message.
CloseFrame == [type |-> "close"]
EmptyFrame == [type |-> "empty"]

\* One iteration of the loop of registerClient that tells the new client
\* who is online, for the key uname of h.Users.
sendOnlineUser(s, client, uname) ==
  IF uname # ConnUser(client) /\ Has(s.Users, uname) /\ s.Users[uname].Online
  THEN sendToClient(s, client, StatusEnv(uname, TRUE), "register")
  ELSE s

\* The eviction branch of registerClient.
evictOld(s, username) ==
  IF Has(s.Users, username) /\ s.Users[username].CurrentConn # None /\ Has(s.Clients, username)
  THEN LET s1 == closeSend(s, s.Clients[username])
       IN IF s1.panicked # NoPanic THEN s1 ELSE [s1 EXCEPT !.Clients = Del(@, username)]
  ELSE s

\* The installation part of registerClient: h.Clients[username] = client and
\* the create-or-update of h.Users[username].
installClient(s, client, t) ==
  IF s.panicked # NoPanic THEN s
  ELSE [s EXCEPT !.Clients = Put(@, ConnUser(client), client),
                 !.Users = Put(@, ConnUser(client),
                               [Online |-> TRUE, CurrentConn |-> client, LastSeen |-> t])]

\* Hub.registerClient from h.mu.Lock() to its call of broadcastStatus: the
\* earlier connection of the user is evicted and the new one installed.
registerClient(s, client, t) == installClient(evictOld(s, ConnUser(client)), client, t)

\* The select of unregisterClient: a receive from client.Send is ready when
\* the channel holds a frame or is closed; otherwise the default branch is
\* taken.
ReceiveReady(s, client) == s.Send[client] # <<>> \/ s.closed[client]

\* case <-client.Send: a queued frame is received, or the zero value of a
\* closed channel.
closeSendSafely(s, client) ==
  IF s.Send[client] # <<>> THEN [s EXCEPT !.Send[client] = Tail(@)] ELSE s

\* A variant of unregisterClient that looks only for an entry of the
\* username, without comparing it with the client being unregistered.
unregisterClient_AnyEntry(s, client, t) ==
  LET username == ConnUser(client)
  IN IF Has(s.Clients, username)
     THEN LET s1 == [s EXCEPT !.Clients = Del(@, username), !.unregistered = @ \cup {client}]
              s2 == IF Has(s1.Users, username)
                    THEN [s1 EXCEPT !.Users[username] =
                            [Online |-> FALSE, CurrentConn |-> None, LastSeen |-> t]]
                    ELSE s1
          IN IF ReceiveReady(s2, client) THEN closeSendSafely(s2, client) ELSE s2
     ELSE s

\* unregisterClient finds client registered.
IsActiveClient(s, client) ==
  Has(s.Clients, ConnUser(client)) /\ s.Clients[ConnUser(client)] = client

\* unregisterClient finds client registered and its select takes the
\* default branch.
TakesDefault(s, client) == IsActiveClient(s, client) /\ ~ReceiveReady(s, client)

\* Hub.unregisterClient from h.mu.Lock() to its select: the comparison with
\* the table, the removal of the entry, the presence record, and the receive
\* from client.Send when the select takes that branch.
unregisterClient(s, client, t) ==
  LET username == ConnUser(client)
  IN IF IsActiveClient(s, client)
     THEN LET s1 == [s EXCEPT !.Clients = Del(@, username), !.unregistered = @ \cup {client}]
              s2 == IF Has(s1.Users, username)
                    THEN [s1 EXCEPT !.Users[username] =
                            [Online |-> FALSE, CurrentConn |-> None, LastSeen |-> t]]
                    ELSE s1
          IN IF ReceiveReady(s2, client) THEN closeSendSafely(s2, client) ELSE s2
     ELSE s

\* A variant of handleTypingEvent that looks up the sender of the event.
handleTypingEvent_ToSender(s, event) ==
  IF Has(s.Clients, event.From)
  THEN sendToClient(s, s.Clients[event.From], TypingEnv(event.From, event.IsTyping), "typing")
  ELSE s

\* Hub.handleTypingEvent, between h.mu.RLock() and the deferred h.mu.RUnlock().
handleTypingEvent(s, event) ==
  IF Has(s.Clients, event.To)
  THEN sendToClient(s, s.Clients[event.To], TypingEnv(event.From, event.IsTyping), "typing")
  ELSE s

(***************************************************************************)
(* Initial state: NewHub() has returned, Hub.Run is running, no request    *)
(* has arrived.                                                            *)
(***************************************************************************)
\* What a handler of Hub.Run has found when it took h.mu: the table, the
\* presence records, and how many frames each queue had accepted.
NoEntry == [Clients |-> EmptyMap, Users |-> EmptyMap, mark |-> [c \in Conns |-> 0]]

\* Hub.Run waits in its select.  In a handler, todo are the keys its range
\* loop has yet to visit and entry what it found under the lock.
Idle == [op |-> "select", client |-> None, ev |-> None, todo |-> {}, entry |-> NoEntry]
WriterOff == [pc |-> "off", n |-> 0, wire |-> <<>>]
\* The frame of a reader that holds none: the zero value of InboundMessage.
NoFrame == [To |-> <<>>, Content |-> ""]

ReaderOff == [pc |-> "off", key |-> <<>>, idx |-> 0, sender |-> None, recip |-> None,
              target |-> None, ret |-> "off", skipped |-> 0, frame |-> NoFrame]

\* new WebSocketClient(): the field initialisers; ws = 0 stands for null.
\* sockets[i] is the readyState of the i-th WebSocket the client created,
\* timers the number of pending setTimeout callbacks of attemptReconnect.
NewWebSocketClient ==
  [ws |-> 0, reconnectAttempts |-> 0, sockets |-> <<>>, timers |-> 0, disconnected |-> FALSE]

Init ==
  /\ Clients = EmptyMap
  /\ Users = EmptyMap
  /\ Conversations = EmptyMap
  /\ Send = [c \in Conns |-> <<>>]
  /\ closed = [c \in Conns |-> FALSE]
  /\ typingEvents = <<>>
  /\ hub = Idle
  /\ http = [c \in Conns |-> "new"]
  /\ rd = [c \in Conns |-> ReaderOff]
  /\ wr = [c \in Conns |-> WriterOff]
  /\ sock = [c \in Conns |-> "none"]
  /\ nextId = 0
  /\ nTyping = 0
  /\ now = 0
  /\ panicked = NoPanic
  /\ enq = [c \in Conns |-> <<>>]
  /\ unlockedWrites = {}
  /\ overflowed = {}
  /\ unregistered = {}
  /\ routes = EmptyMap
  /\ evictions = {}
  /\ installed = {}
  /\ sessions = EmptyMap
  /\ logins = <<>>
  /\ logouts = <<>>
  /\ browser = NewWebSocketClient

Alive == panicked = NoPanic

\* The positions of Hub.Run inside registerClient and inside
\* unregisterClient.  "register" and "unregister": the client has been
\* received and h.mu is not taken yet; "registerBroadcast" and
\* "unregisterBroadcast": in the loop of broadcastStatus; "registerOnline":
\* in the loop over h.Users; "unregisterClose": in the default branch of the
\* select, before close(client.Send).
RegisterOps == {"register", "registerBroadcast", "registerOnline"}
UnregisterOps == {"unregister", "unregisterClose", "unregisterBroadcast"}

\* Hub.Run is inside registerClient or unregisterClient, holding h.mu.
\* (handleTypingEvent runs from RLock to RUnlock in one step.)
HubHoldsLock ==
  hub.op \in {"registerBroadcast", "registerOnline", "unregisterClose", "unregisterBroadcast"}

\* The variables a hub function leaves in the record s.
Commit(s) ==
  /\ Clients' = s.Clients
  /\ Users' = s.Users
  /\ Send' = s.Send
  /\ closed' = s.closed
  /\ enq' = s.enq
  /\ panicked' = s.panicked
  /\ unlockedWrites' = s.unlockedWrites
  /\ overflowed' = s.overflowed
  /\ unregistered' = s.unregistered

hubVars == <<Clients, Users, Send, closed, enq, panicked, unlockedWrites, overflowed, unregistered>>

(***************************************************************************)
(* HandleWebSocket (http.go).                                              *)
(***************************************************************************)
\* http[c] is the position of the handler: "new" (the request has arrived),
\* "session" (GetSession has returned the session), "checked" (the check
\* has passed and hub.mu is released), "upgraded", "handed", or one of the
\* ends "unauthorized", "conflict", "failed" and "dropped".
HasActiveConn(username) == Has(Users, username) /\ Users[username].CurrentConn # None

\* sessionStore.GetSession succeeds for some cookie of the user.
HasSession(username) == \E id \in DOMAIN sessions : sessions[id] = username

\* sessionStore.GetSession(sessionID) in HandleWebSocket: 401 without a
\* session.
GetSession(c) ==
  /\ Alive
  /\ http[c] = "new"
  /\ http' = [http EXCEPT ![c] = IF HasSession(ConnUser(c))
                                  THEN "session" ELSE "unauthorized"]
  /\ UNCHANGED <<hubVars, Conversations, typingEvents, hub, rd, wr, sock, nextId, nTyping, now,
                 routes, evictions, installed, webVars, browser>>

\* The admission check, between hub.mu.RLock() and hub.mu.RUnlock(), of a
\* handler at position pos: 409 when the user has a CurrentConn, otherwise
\* the handler goes on, without the lock, to the upgrade.
AdmissionAt(c, pos) ==
  /\ Alive
  /\ ~HubHoldsLock
  /\ http[c] = pos
  /\ http' = [http EXCEPT ![c] = IF HasActiveConn(ConnUser(c)) THEN "conflict" ELSE "checked"]
  /\ UNCHANGED <<hubVars, Conversations, typingEvents, hub, rd, wr, sock, nextId, nTyping, now,
                 routes, evictions, installed, webVars, browser>>

\* The check of a request whose session no logout deletes: GetSession only
\* reads the session store, so it is taken together with the check.
Admission(c) == AdmissionAt(c, "new")

\* upgrader.Upgrade(w, r, nil) succeeds.
Upgrade(c) ==
  /\ Alive
  /\ http[c] = "checked"
  /\ http' = [http EXCEPT ![c] = "upgraded"]
  /\ sock' = [sock EXCEPT ![c] = "open"]
  /\ UNCHANGED <<hubVars, Conversations, typingEvents, hub, rd, wr, nextId, nTyping, now,
                 routes, evictions, installed, webVars, browser>>

\* upgrader.Upgrade returns an error: the handler returns, no Client is
\* created.
UpgradeFails(c) ==
  /\ Alive
  /\ http[c] = "checked"
  /\ http' = [http EXCEPT ![c] = "failed"]
  /\ UNCHANGED <<hubVars, Conversations, typingEvents, hub, rd, wr, sock, nextId, nTyping, now,
                 routes, evictions, installed, webVars, browser>>

\* case hub.Register <- client: the channel is unbuffered, so the send
\* succeeds only while Hub.Run waits in its select; both pumps start.
RegisterHandoff(c) ==
  /\ Alive
  /\ http[c] = "upgraded"
  /\ hub.op = "select"
  /\ hub' = [Idle EXCEPT !.op = "register", !.client = c]
  /\ http' = [http EXCEPT ![c] = "handed"]
  /\ rd' = [rd EXCEPT ![c].pc = "read"]
  /\ wr' = [wr EXCEPT ![c].pc = "run"]
  /\ UNCHANGED <<hubVars, Conversations, typingEvents, sock, nextId, nTyping, now, routes, evictions, installed, webVars, browser>>

\* default: Hub.Run is not waiting in its select at this instant (it is
\* running a handler, or has not reached the select yet): conn.Close().
RegisterDropped(c) ==
  /\ Alive
  /\ http[c] = "upgraded"
  /\ http' = [http EXCEPT ![c] = "dropped"]
  /\ sock' = [sock EXCEPT ![c] = "closed"]
  /\ UNCHANGED <<hubVars, Conversations, typingEvents, hub, rd, wr, nextId, nTyping, now,
                 routes, evictions, installed, webVars, browser>>

(***************************************************************************)
(* Hub.Run (hub.go).                                                       *)
(***************************************************************************)
\* The clients other than username in h.Clients of s, and the users other
\* than username that are Online in h.Users of s.
OtherClients(s, username) == (DOMAIN s.Clients) \ {username}
OtherOnline(s, username) == {u \in (DOMAIN s.Users) \ {username} : s.Users[u].Online}

\* The frames c's writePump took from the queue during a step that queued
\* frames for c: those that were queued before the step or accepted by it
\* and are in the queue no more.
TakenMeanwhile(c) ==
  LET accepted == SubSeq(enq'[c], Len(enq[c]) + 1, Len(enq'[c]))
  IN SubSeq(Send[c] \o accepted, 1, Len(Send[c]) + Len(accepted) - Len(Send'[c]))

\* The state a handler enters with.
Entered == [Clients |-> Clients, Users |-> Users, mark |-> [c \in Conns |-> Len(enq[c])]]

\* Where Hub.Run is when registerClient reaches its loop over h.Users with
\* the hub in state s: in the loop, or back in its select when no other
\* user is online.
OnlineLoop(h, s) ==
  IF OtherOnline(s, ConnUser(h.client)) = {} THEN Idle
  ELSE [h EXCEPT !.op = "registerOnline", !.todo = OtherOnline(s, ConnUser(h.client))]

\* Where Hub.Run is when broadcastStatus(username, online) has returned.
AfterBroadcast(h, s, online) == IF online THEN OnlineLoop(h, s) ELSE Idle

\* Where Hub.Run is when it calls broadcastStatus(username, online): in the
\* loop over h.Clients, or past it when there is no other client.
BroadcastLoop(h, s, online) ==
  IF OtherClients(s, ConnUser(h.client)) = {} THEN AfterBroadcast(h, s, online)
  ELSE [h EXCEPT !.op = IF online THEN "registerBroadcast" ELSE "unregisterBroadcast",
                 !.todo = OtherClients(s, ConnUser(h.client))]

\* installed after a step of Hub.Run: the client of a registerClient that
\* returns in this step is added when it is in the table with its queue
\* open.
InstalledNext ==
  IF /\ hub.op \in RegisterOps
     /\ hub'.op = "select"
     /\ panicked' = NoPanic
     /\ Has(Clients', ConnUser(hub.client))
     /\ Clients'[ConnUser(hub.client)] = hub.client
     /\ ~closed'[hub.client]
  THEN installed \cup {hub.client}
  ELSE installed

\* case client := <-h.Register: h.registerClient(client), from h.mu.Lock()
\* to the first send of its loops, or to its return when it has no one to
\* send to.
HubRegister ==
  /\ Alive
  /\ hub.op = "register"
  /\ LET s1 == registerClient(HubState, hub.client, now)
     IN /\ Commit(s1)
        /\ hub' = BroadcastLoop([hub EXCEPT !.entry = Entered], s1, TRUE)
  /\ evictions' = IF HasActiveConn(ConnUser(hub.client)) /\ Has(Clients, ConnUser(hub.client))
                  THEN evictions \cup {<<Clients[ConnUser(hub.client)], hub.client>>}
                  ELSE evictions
  /\ installed' = InstalledNext
  /\ UNCHANGED <<Conversations, typingEvents, http, rd, wr, sock, nextId, nTyping, now, routes,
                 webVars, browser>>

\* One iteration of the loop of broadcastStatus, called by registerClient
\* or by unregisterClient: the range over h.Clients yields a key it has not
\* yielded yet, in whatever order, and the status is sent to that client.
\* After the last one broadcastStatus returns, and unregisterClient with it.
HubBroadcastStatus ==
  /\ Alive
  /\ hub.op \in {"registerBroadcast", "unregisterBroadcast"}
  /\ \E uname \in hub.todo :
        LET online == hub.op = "registerBroadcast"
            s1 == broadcastStatus(HubState, ConnUser(hub.client), online, <<uname>>,
                                  IF online THEN "register" ELSE "unregister")
        IN /\ Commit(s1)
           /\ hub' = IF hub.todo = {uname} THEN AfterBroadcast(hub, s1, online)
                     ELSE [hub EXCEPT !.todo = @ \ {uname}]
  /\ installed' = InstalledNext
  /\ UNCHANGED <<Conversations, typingEvents, http, rd, wr, sock, nextId, nTyping, now, routes,
                 evictions, webVars, browser>>

\* One iteration of the loop of registerClient over h.Users: the status of
\* a user who is online is sent to the new client.  After the last one
\* registerClient returns.
HubSendOnline ==
  /\ Alive
  /\ hub.op = "registerOnline"
  /\ \E uname \in hub.todo :
        /\ Commit(sendOnlineUser(HubState, hub.client, uname))
        /\ hub' = IF hub.todo = {uname} THEN Idle ELSE [hub EXCEPT !.todo = @ \ {uname}]
  /\ installed' = InstalledNext
  /\ UNCHANGED <<Conversations, typingEvents, http, rd, wr, sock, nextId, nTyping, now, routes,
                 evictions, webVars, browser>>

\* case client := <-h.Unregister, the sender being c.readPump's deferred
\* function, which then closes the socket and ends.
UnregisterHandoff(c) ==
  /\ Alive
  /\ rd[c].pc = "unreg"
  /\ hub.op = "select"
  /\ hub' = [Idle EXCEPT !.op = "unregister", !.client = c]
  /\ rd' = [rd EXCEPT ![c].pc = "done"]
  /\ sock' = [sock EXCEPT ![c] = "closed"]
  /\ UNCHANGED <<hubVars, Conversations, typingEvents, http, wr, nextId, nTyping, now,
                 routes, evictions, installed, webVars, browser>>

\* h.unregisterClient(client) from h.mu.Lock() to its select: it returns
\* when the client is not the registered one; when the select receives it
\* goes on to broadcastStatus, otherwise to the default branch.
HubUnregister ==
  /\ Alive
  /\ hub.op = "unregister"
  /\ LET s1 == unregisterClient(HubState, hub.client, now)
     IN /\ Commit(s1)
        /\ hub' = IF TakesDefault(HubState, hub.client)
                  THEN [hub EXCEPT !.op = "unregisterClose", !.entry = Entered]
                  ELSE IF IsActiveClient(HubState, hub.client)
                       THEN BroadcastLoop([hub EXCEPT !.entry = Entered], s1, FALSE)
                       ELSE Idle
  /\ UNCHANGED <<Conversations, typingEvents, http, rd, wr, sock, nextId, nTyping, now,
                 routes, evictions, installed, webVars, browser>>

\* default: close(client.Send), and the call of broadcastStatus.
HubUnregisterClose ==
  /\ Alive
  /\ hub.op = "unregisterClose"
  /\ LET s1 == closeSend(HubState, hub.client)
     IN /\ Commit(s1)
        /\ hub' = BroadcastLoop(hub, s1, FALSE)
  /\ UNCHANGED <<Conversations, typingEvents, http, rd, wr, sock, nextId, nTyping, now,
                 routes, evictions, installed, webVars, browser>>

\* case event := <-h.TypingEvents
TypingReceive ==
  /\ Alive
  /\ hub.op = "select"
  /\ typingEvents # <<>>
  /\ hub' = [Idle EXCEPT !.op = "typing", !.ev = Head(typingEvents)]
  /\ typingEvents' = Tail(typingEvents)
  /\ UNCHANGED <<hubVars, Conversations, http, rd, wr, sock, nextId, nTyping, now, routes, evictions, installed, webVars, browser>>

\* h.handleTypingEvent(event)
HubTyping ==
  /\ Alive
  /\ hub.op = "typing"
  /\ Commit(handleTypingEvent(HubState, hub.ev))
  /\ hub' = Idle
  /\ UNCHANGED <<Conversations, typingEvents, http, rd, wr, sock, nextId, nTyping, now,
                 routes, evictions, installed, webVars, browser>>

(***************************************************************************)
(* Client.readPump (client.go).                                            *)
(***************************************************************************)
Contents == {"hi"}

Lookup(m, k) == IF Has(m, k) THEN m[k] ELSE None
\* A variant of Log that takes every log for empty, as a store that starts
\* the slice anew instead of appending to it would.
Log_Fresh(convs, key) == <<>>

\* h.Conversations[convKey], nil for a key without a log.
Log(convs, key) == IF Has(convs, key) THEN convs[key] ELSE <<>>

\* Where handleInboundMessageWithSender continues after each of its parts,
\* given the clients it found under the lock.
AfterLookup(sender, recip) ==
  IF sender # None THEN "sendSender" ELSE IF recip # None THEN "sendRecip" ELSE "read"
\* A variant of AfterSender that goes on to mark the message delivered
\* whether or not a recipient was found.
AfterSender_AlwaysMark(recip) == "mark"
\* A variant of AfterSender that never goes on to the recipient.
AfterSender_SkipsRecipient(recip) == "read"
AfterSender(recip) == IF recip # None THEN "sendRecip" ELSE "read"
AfterMark(sender) == IF sender # None THEN "ack" ELSE "read"

\* c.Conn.ReadMessage() returns a "message" frame whose payload parses,
\* and readPump calls handleInboundMessageWithSender, which asks for h.mu.
ReadInbound(c, to, content) ==
  /\ Alive
  /\ rd[c].pc = "read"
  /\ sock[c] = "open"
  /\ rd' = [rd EXCEPT ![c].pc = "lock", ![c].frame = [To |-> to, Content |-> content]]
  /\ UNCHANGED <<hubVars, Conversations, typingEvents, hub, http, wr, sock, nextId, nTyping,
                 now, routes, evictions, installed, webVars, browser>>

\* The readers that have read a "message" frame and have not entered the
\* locked section of handleInboundMessageWithSender yet.
AtLock == {c \in Conns : rd[c].pc = "lock"}

\* handleInboundMessageWithSender from h.mu.Lock() to h.mu.Unlock(), whatever
\* has become of the socket since the frame was read: the message is created
\* and appended to its conversation, and the two clients are looked up.
handleInboundMessageWithSender(c) ==
  /\ Alive
  /\ ~HubHoldsLock
  /\ rd[c].pc = "lock"
  /\ LET from == ConnUser(c)
         to == rd[c].frame.To
         content == rd[c].frame.Content
         message == [ID |-> nextId + 1, From |-> from, To |-> to, Content |-> content,
                     Timestamp |-> now, Status |-> "sent"]
         convKey == ConvKey(from, to)
         senderClient == Lookup(Clients, from)
         recipientClient == Lookup(Clients, to)
     IN /\ Conversations' = Put(Conversations, convKey, Append(Log(Conversations, convKey), message))
        /\ rd' = [rd EXCEPT ![c] = [pc |-> AfterLookup(senderClient, recipientClient),
                                    key |-> convKey,
                                    idx |-> Len(Log(Conversations, convKey)) + 1,
                                    sender |-> senderClient, recip |-> recipientClient,
                                    target |-> None, ret |-> "off",
                                    skipped |-> rd[c].skipped, frame |-> NoFrame]]
        /\ routes' = Put(routes, nextId + 1,
                         [conn |-> c, sender |-> senderClient, recip |-> recipientClient,
                          key |-> convKey, idx |-> Len(Log(Conversations, convKey)) + 1,
                          msg |-> message])
  /\ nextId' = nextId + 1
  /\ UNCHANGED <<hubVars, typingEvents, hub, http, wr, sock, nTyping, now, evictions, installed, webVars, browser>>

\* The message a reader is routing.
Routed(c) == Conversations[rd[c].key][rd[c].idx]

\* A variant of GetConversationMessages that keeps only the messages the
\* first user sent.
GetConversationMessages_SentByFirst(username1, username2) ==
  SelectSeq(Log(Conversations, ConvKey(username1, username2)), LAMBDA m : m.From = username1)

\* Hub.GetConversationMessages
GetConversationMessages(username1, username2) == Log(Conversations, ConvKey(username1, username2))

\* The select of a sendToClient call made after h.mu.Unlock(): the frame is
\* queued, or the send panics, or the default branch is entered.
RouteSelect(c, pc, client, env, next) ==
  /\ Alive
  /\ rd[c].pc = pc
  /\ IF SendWouldBlock(HubState, client)
     THEN /\ rd' = [rd EXCEPT ![c].pc = "close", ![c].target = client, ![c].ret = next]
          /\ UNCHANGED hubVars
     ELSE LET s1 == selectSend(HubState, client, env)
          IN /\ Commit(s1)
             /\ rd' = IF s1.panicked # NoPanic THEN rd ELSE [rd EXCEPT ![c].pc = next]
  /\ UNCHANGED <<Conversations, typingEvents, hub, http, wr, sock, nextId, nTyping, now,
                 routes, evictions, installed, webVars, browser>>

\* h.sendToClient(senderClient, "message", senderOutboundMsg)
RouteSendSender(c) ==
  /\ rd[c].pc = "sendSender"
  /\ RouteSelect(c, "sendSender", rd[c].sender, MessageEnv(Routed(c), "sent"),
                 AfterSender(rd[c].recip))

\* h.sendToClient(recipientClient, "message", recipientOutboundMsg)
RouteSendRecipient(c) ==
  /\ rd[c].pc = "sendRecip"
  /\ RouteSelect(c, "sendRecip", rd[c].recip, MessageEnv(Routed(c), "delivered"), "mark")

\* h.mu.Lock(); message.Status = "delivered"; h.mu.Unlock()
RouteMarkDelivered(c) ==
  /\ Alive
  /\ ~HubHoldsLock
  /\ rd[c].pc = "mark"
  /\ Conversations' = [Conversations EXCEPT ![rd[c].key][rd[c].idx].Status = "delivered"]
  /\ rd' = [rd EXCEPT ![c].pc = AfterMark(rd[c].sender)]
  /\ UNCHANGED <<hubVars, typingEvents, hub, http, wr, sock, nextId, nTyping, now, routes, evictions, installed, webVars, browser>>

\* h.sendToClient(senderClient, "ack", ack)
RouteSendAck(c) ==
  /\ rd[c].pc = "ack"
  /\ RouteSelect(c, "ack", rd[c].sender, AckEnv(Routed(c).ID), "read")

\* close(client.Send) in the default branch of an unlocked sendToClient
RouteClose(c) ==
  /\ Alive
  /\ rd[c].pc = "close"
  /\ LET s1 == closeFull(HubState, rd[c].target)
     IN /\ Commit(s1)
        /\ rd' = IF s1.panicked # NoPanic THEN rd ELSE [rd EXCEPT ![c].pc = "delete"]
  /\ UNCHANGED <<Conversations, typingEvents, hub, http, wr, sock, nextId, nTyping, now,
                 routes, evictions, installed, webVars, browser>>

\* Another goroutine is at a write of h.Clients while c's reader is at its
\* unlocked delete: Hub.Run is in a handler (registerClient and
\* unregisterClient assign and delete, handleTypingEvent's sendToClient may
\* delete), or another reader is at its own unlocked delete.
ConcurrentMapWrite(c) ==
  \/ hub.op # "select"
  \/ \E c2 \in Conns \ {c} : rd[c2].pc = "delete"

\* Another goroutine is at a read of h.Clients: HandleLogout is at its
\* lookup, or another readPump has read a frame and is at the locked
\* section of handleInboundMessageWithSender (h.Clients[from] and
\* h.Clients[msg.To]), which the unlocked delete does not wait for.
ConcurrentMapRead(c) ==
  \/ \E i \in 1..Len(logouts) : logouts[i].pc = "lookup"
  \/ \E c2 \in Conns \ {c} : rd[c2].pc = "lock"

ConcurrentMapAccess(c) == ConcurrentMapWrite(c) \/ ConcurrentMapRead(c)

\* What a delete on h.Clients without h.mu may come to.  Alone it deletes
\* the entry.  Overlapping with another access it is a data race: the
\* runtime may detect it and end the process ("fatal error: concurrent map
\* writes", "concurrent map read and map write"), and two overlapping
\* writes may leave the map in a state the language does not define, of
\* which the model keeps the one where the entry is still there.
MapRaceOutcomes(c) ==
  IF ConcurrentMapWrite(c) THEN {"deleted", "fatal", "kept"}
  ELSE IF ConcurrentMapRead(c) THEN {"deleted", "fatal"}
  ELSE {"deleted"}

deleteClientUnlocked(s, client, outcome) ==
  IF s.panicked # NoPanic THEN s
  ELSE IF outcome = "fatal" THEN [s EXCEPT !.panicked = "concurrent map writes"]
  ELSE IF outcome = "kept" THEN [deleteClient(s, client, "route") EXCEPT !.Clients = s.Clients]
  ELSE deleteClient(s, client, "route")

\* delete(h.Clients, client.Username) in the default branch of an unlocked
\* sendToClient
RouteDelete(c) ==
  /\ Alive
  /\ rd[c].pc = "delete"
  /\ \E outcome \in MapRaceOutcomes(c) :
        /\ Commit(deleteClientUnlocked(HubState, rd[c].target, outcome))
        /\ rd' = IF outcome = "fatal" THEN rd
                 ELSE [rd EXCEPT ![c].pc = rd[c].ret, ![c].target = None, ![c].ret = "off"]
  /\ UNCHANGED <<Conversations, typingEvents, hub, http, wr, sock, nextId, nTyping, now,
                 routes, evictions, installed, webVars, browser>>

\* A "typing" frame is read: c.Hub.TypingEvents <- &TypingEventWrapper{...}
ReadTyping(c, to, isTyping) ==
  /\ Alive
  /\ rd[c].pc = "read"
  /\ sock[c] = "open"
  /\ typingEvents' = Append(typingEvents, [From |-> ConnUser(c), To |-> to, IsTyping |-> isTyping])
  /\ nTyping' = nTyping + 1
  /\ UNCHANGED <<hubVars, Conversations, hub, http, rd, wr, sock, nextId, now, routes, evictions, installed, webVars, browser>>

\* The frames a client may send, as far as readPump tells them apart: json
\* says whether the frame is a JSON text, type is the envelope's "type", and
\* payload is the kind of JSON value of its "payload" (null also stands for
\* an envelope without one).
InboundFrames == [json : BOOLEAN, type : {"message", "typing", "status"},
                  payload : {"object", "mistyped", "string", "number", "bool", "array", "null"}]

\* json.Unmarshal of the re-marshalled payload into InboundMessage or
\* TypingEvent: null is accepted (it leaves the struct zero) and so is an
\* object whose fields have the JSON types of the struct's ("object"); an
\* object with a field of another type ("mistyped", as in {"to": 5} or
\* {"isTyping": "yes"}) and a value that is no object are errors.
PayloadError(frame) == frame.payload \notin {"object", "null"}

\* A variant of Dispatch that ignores the error of the payload's Unmarshal.
Dispatch_IgnoresPayloadError(frame) ==
  IF ~frame.json THEN "skip"
  ELSE IF frame.type = "message" THEN "message"
  ELSE IF frame.type = "typing" THEN "typing"
  ELSE "skip"

\* What readPump does with a frame: "skip" is a continue or the end of the
\* switch without a matching case.
Dispatch(frame) ==
  IF ~frame.json THEN "skip"
  ELSE IF frame.type = "message" THEN IF PayloadError(frame) THEN "skip" ELSE "message"
  ELSE IF frame.type = "typing" THEN IF PayloadError(frame) THEN "skip" ELSE "typing"
  ELSE "skip"

\* How many skipped frames a reader is followed through.
MaxSkipped == 1

\* A frame is read that readPump skips.
ReadSkipped(c, frame) ==
  /\ Alive
  /\ rd[c].pc = "read"
  /\ sock[c] = "open"
  /\ Dispatch(frame) = "skip"
  /\ rd[c].skipped < MaxSkipped
  /\ rd' = [rd EXCEPT ![c].skipped = @ + 1]
  /\ UNCHANGED <<hubVars, Conversations, typingEvents, hub, http, wr, sock, nextId, nTyping,
                 now, routes, evictions, installed, webVars, browser>>

\* c.Conn.ReadMessage() returns an error: the loop breaks and the deferred
\* function starts with c.Hub.Unregister <- c.
ReadError(c) ==
  /\ Alive
  /\ rd[c].pc = "read"
  /\ sock[c] # "open"
  /\ rd' = [rd EXCEPT ![c].pc = "unreg"]
  /\ UNCHANGED <<hubVars, Conversations, typingEvents, hub, http, wr, sock, nextId, nTyping,
                 now, routes, evictions, installed, webVars, browser>>

\* The peer closes the socket or the network fails.
SocketFail(c) ==
  /\ Alive
  /\ sock[c] = "open"
  /\ http[c] = "handed"
  /\ sock' = [sock EXCEPT ![c] = "failed"]
  /\ UNCHANGED <<hubVars, Conversations, typingEvents, hub, http, rd, wr, nextId, nTyping,
                 now, routes, evictions, installed, webVars, browser>>

(***************************************************************************)
(* Client.writePump (client.go).                                           *)
(***************************************************************************)
\* c.Conn.WriteMessage by c's writePump, which is at position pc, and where
\* the pump goes next: after a write error it returns and its deferred
\* function closes the socket.
WriteMessage(c, frame, next, n) ==
  /\ wr' = [wr EXCEPT ![c] = IF sock[c] = "open"
                              THEN [pc |-> next, n |-> n, wire |-> Append(@.wire, frame)]
                              ELSE [pc |-> "done", n |-> n, wire |-> @.wire]]
  /\ sock' = [sock EXCEPT ![c] = IF sock[c] = "open" /\ next # "done" THEN "open" ELSE "closed"]

\* case message, ok := <-c.Send with ok: the frame is written.
WriterSend(c) ==
  /\ Alive
  /\ wr[c].pc = "run"
  /\ Send[c] # <<>>
  /\ Send' = [Send EXCEPT ![c] = Tail(@)]
  /\ WriteMessage(c, Head(Send[c]), "len", 0)
  /\ UNCHANGED <<Clients, Users, closed, enq, panicked, unlockedWrites, overflowed,
                 unregistered, Conversations, typingEvents, hub, http, rd, nextId, nTyping, now,
                 routes, evictions, installed, webVars, browser>>

\* n := len(c.Send), after the frame has been written.
WriterLen(c) ==
  /\ Alive
  /\ wr[c].pc = "len"
  /\ wr' = [wr EXCEPT ![c].pc = IF Len(Send[c]) = 0 THEN "run" ELSE "drain",
                       ![c].n = Len(Send[c])]
  /\ UNCHANGED <<hubVars, Conversations, typingEvents, hub, http, rd, sock, nextId, nTyping, now,
                 routes, evictions, installed, webVars, browser>>

\* queuedMsg := <-c.Send in the loop over the n frames counted: the receive
\* waits while the channel is open and empty, and yields a nil message when
\* the channel is closed and empty.
WriterDrain(c) ==
  /\ Alive
  /\ wr[c].pc = "drain"
  /\ Send[c] # <<>> \/ closed[c]
  /\ Send' = [Send EXCEPT ![c] = IF @ # <<>> THEN Tail(@) ELSE @]
  /\ WriteMessage(c, IF Send[c] # <<>> THEN Head(Send[c]) ELSE EmptyFrame,
                  IF wr[c].n = 1 THEN "run" ELSE "drain", wr[c].n - 1)
  /\ UNCHANGED <<Clients, Users, closed, enq, panicked, unlockedWrites, overflowed,
                 unregistered, Conversations, typingEvents, hub, http, rd, nextId, nTyping, now,
                 routes, evictions, installed, webVars, browser>>

\* case message, ok := <-c.Send with !ok: the hub closed the channel; a
\* close frame is written, the pump returns and closes the socket.
WriterClosed(c) ==
  /\ Alive
  /\ wr[c].pc = "run"
  /\ Send[c] = <<>>
  /\ closed[c]
  /\ WriteMessage(c, CloseFrame, "done", 0)
  /\ UNCHANGED <<hubVars, Conversations, typingEvents, hub, http, rd, nextId, nTyping, now,
                 routes, evictions, installed, webVars, browser>>

\* case <-ticker.C: the ping cannot be written; the pump returns and closes
\* the socket.
WriterPingFails(c) ==
  /\ Alive
  /\ wr[c].pc = "run"
  /\ sock[c] # "open"
  /\ wr' = [wr EXCEPT ![c].pc = "done"]
  /\ sock' = [sock EXCEPT ![c] = "closed"]
  /\ UNCHANGED <<hubVars, Conversations, typingEvents, hub, http, rd, nextId, nTyping, now,
                 routes, evictions, installed, webVars, browser>>

(***************************************************************************)
(* The read-only queries of the hub (hub.go), which run under h.mu.RLock.  *)
(***************************************************************************)
\* A variant of After that holds when t is the earlier instant.
After_Before(t, u) == t < u

\* time.Time.After
After(t, u) == t > u

\* sort.Slice on a slice of at most 12 elements is an insertion sort with
\* the caller's less function, here
\* conversations[i].LastMessageTime.After(conversations[j].LastMessageTime).
Swap(data, i, j) == [data EXCEPT ![i] = data[j], ![j] = data[i]]
RECURSIVE SiftDown(_, _)
SiftDown(data, j) ==
  IF j > 1 /\ After(data[j].LastMessageTime, data[j - 1].LastMessageTime)
  THEN SiftDown(Swap(data, j, j - 1), j - 1)
  ELSE data
RECURSIVE InsertionSort(_, _)
InsertionSort(data, i) == IF i > Len(data) THEN data ELSE InsertionSort(SiftDown(data, i), i + 1)

\* A variant of PeerOf that always takes the sender of the last message.
PeerOf_Sender(lastMsg, username) == lastMsg.From

\* Whether the last message of a conversation is from or to username.
Involves(lastMsg, username) == lastMsg.From = username \/ lastMsg.To = username

\* The peer of username in a conversation that involves it, derived from
\* its last message.
PeerOf(lastMsg, username) == IF lastMsg.From = username THEN lastMsg.To ELSE lastMsg.From

\* The loop of GetConversations over h.Conversations, visited in the order
\* ord, with seenPeers the peers already reported.
RECURSIVE CollectConversations(_, _, _, _)
CollectConversations(username, ord, seenPeers, conversations) ==
  IF ord = <<>> THEN conversations
  ELSE LET messages == Conversations[Head(ord)]
           lastMsg == messages[Len(messages)]
           peer == PeerOf(lastMsg, username)
       IN IF Len(messages) = 0 \/ ~Involves(lastMsg, username) \/ peer \in seenPeers
          THEN CollectConversations(username, Tail(ord), seenPeers, conversations)
          ELSE CollectConversations(username, Tail(ord), seenPeers \cup {peer},
                 Append(conversations,
                        [PeerUsername |-> peer,
                         LastMessagePreview |-> lastMsg.Content,
                         LastMessageTime |-> lastMsg.Timestamp,
                         PeerOnline |-> Has(Users, peer) /\ Users[peer].Online]))

\* Hub.GetConversations; ord is the order in which range h.Conversations
\* yields keys.
GetConversations(username, ord) ==
  InsertionSort(CollectConversations(username, ord, {}, <<>>), 2)

(***************************************************************************)
(* unicode/utf8 and the parts of unicode and strings the server uses.      *)
(***************************************************************************)
\* utf8.RuneError (U+FFFD), the rune an invalid encoding decodes to.
RuneError == 65533

\* A continuation byte, 10xxxxxx.
Cont(b) == b >= 128 /\ b <= 191

\* The range utf8 accepts for the second byte after the leading byte b0.
SecondLo(b0) == IF b0 = 224 THEN 160 ELSE IF b0 = 240 THEN 144 ELSE 128
SecondHi(b0) == IF b0 = 237 THEN 159 ELSE IF b0 = 244 THEN 143 ELSE 191

\* utf8.DecodeRune: the first rune of p and its width in bytes; an invalid
\* or incomplete encoding is RuneError of width 1, the empty string
\* RuneError of width 0.
DecodeRune(p) ==
  LET n == Len(p)
      bad == [rune |-> RuneError, size |-> 1]
      second == n >= 2 /\ p[2] >= SecondLo(p[1]) /\ p[2] <= SecondHi(p[1])
  IN IF n = 0 THEN [rune |-> RuneError, size |-> 0]
     ELSE IF p[1] < 128 THEN [rune |-> p[1], size |-> 1]
     ELSE IF p[1] >= 194 /\ p[1] <= 223
          THEN IF second
               THEN [rune |-> (p[1] - 192) * 64 + (p[2] - 128), size |-> 2]
               ELSE bad
     ELSE IF p[1] >= 224 /\ p[1] <= 239
          THEN IF second /\ n >= 3 /\ Cont(p[3])
               THEN [rune |-> (p[1] - 224) * 4096 + (p[2] - 128) * 64 + (p[3] - 128), size |-> 3]
               ELSE bad
     ELSE IF p[1] >= 240 /\ p[1] <= 244
          THEN IF second /\ n >= 4 /\ Cont(p[3]) /\ Cont(p[4])
               THEN [rune |-> (p[1] - 240) * 262144 + (p[2] - 128) * 4096
                                + (p[3] - 128) * 64 + (p[4] - 128),
                     size |-> 4]
               ELSE bad
     ELSE bad

\* utf8.DecodeLastRune: the last rune of p and its width.  The start of the
\* encoding is looked for among the last four bytes.
DecodeLastRune(p) ==
  LET end == Len(p)
      lim == IF end > 4 THEN end - 4 ELSE 0
      \* positions counted from 0, as in the source
      starts == {s \in lim..(end - 2) : ~Cont(p[s + 1])}
      found == IF starts # {} THEN CHOOSE s \in starts : \A t \in starts : t <= s
               ELSE IF lim - 1 < 0 THEN 0 ELSE lim - 1
      d == DecodeRune(SubSeq(p, found + 1, end))
  IN IF end = 0 THEN [rune |-> RuneError, size |-> 0]
     ELSE IF p[end] < 128 THEN [rune |-> p[end], size |-> 1]
     ELSE IF found + d.size # end THEN [rune |-> RuneError, size |-> 1]
     ELSE d

\* utf8.EncodeRune
EncodeRune(r) ==
  IF r < 128 THEN <<r>>
  ELSE IF r < 2048 THEN <<192 + (r \div 64), 128 + (r % 64)>>
  ELSE IF r < 65536 THEN <<224 + (r \div 4096), 128 + ((r \div 64) % 64), 128 + (r % 64)>>
  ELSE <<240 + (r \div 262144), 128 + ((r \div 4096) % 64), 128 + ((r \div 64) % 64),
         128 + (r % 64)>>

\* The runes unicode.ToLower changes (unicode.CaseRanges, Unicode 14.0), as
\* <<lo, hi, stride, delta>>: the runes lo, lo + stride, ... up to hi map
\* to themselves plus delta.
CaseRanges ==
  <<<<65, 90, 1, 32>>, <<192, 214, 1, 32>>, <<216, 222, 1, 32>>, <<256, 302, 2, 1>>,
    <<304, 304, 1, -199>>, <<306, 310, 2, 1>>, <<313, 327, 2, 1>>, <<330, 374, 2, 1>>,
    <<376, 376, 1, -121>>, <<377, 381, 2, 1>>, <<385, 385, 1, 210>>, <<386, 388, 2, 1>>,
    <<390, 390, 1, 206>>, <<391, 391, 1, 1>>, <<393, 394, 1, 205>>, <<395, 395, 1, 1>>,
    <<398, 398, 1, 79>>, <<399, 399, 1, 202>>, <<400, 400, 1, 203>>, <<401, 401, 1, 1>>,
    <<403, 403, 1, 205>>, <<404, 404, 1, 207>>, <<406, 406, 1, 211>>, <<407, 407, 1, 209>>,
    <<408, 408, 1, 1>>, <<412, 412, 1, 211>>, <<413, 413, 1, 213>>, <<415, 415, 1, 214>>,
    <<416, 420, 2, 1>>, <<422, 422, 1, 218>>, <<423, 423, 1, 1>>, <<425, 425, 1, 218>>,
    <<428, 428, 1, 1>>, <<430, 430, 1, 218>>, <<431, 431, 1, 1>>, <<433, 434, 1, 217>>,
    <<435, 437, 2, 1>>, <<439, 439, 1, 219>>, <<440, 440, 1, 1>>, <<444, 444, 1, 1>>,
    <<452, 452, 1, 2>>, <<453, 453, 1, 1>>, <<455, 455, 1, 2>>, <<456, 456, 1, 1>>,
    <<458, 458, 1, 2>>, <<459, 475, 2, 1>>, <<478, 494, 2, 1>>, <<497, 497, 1, 2>>,
    <<498, 500, 2, 1>>, <<502, 502, 1, -97>>, <<503, 503, 1, -56>>, <<504, 542, 2, 1>>,
    <<544, 544, 1, -130>>, <<546, 562, 2, 1>>, <<570, 570, 1, 10795>>, <<571, 571, 1, 1>>,
    <<573, 573, 1, -163>>, <<574, 574, 1, 10792>>, <<577, 577, 1, 1>>, <<579, 579, 1, -195>>,
    <<580, 580, 1, 69>>, <<581, 581, 1, 71>>, <<582, 590, 2, 1>>, <<880, 882, 2, 1>>,
    <<886, 886, 1, 1>>, <<895, 895, 1, 116>>, <<902, 902, 1, 38>>, <<904, 906, 1, 37>>,
    <<908, 908, 1, 64>>, <<910, 911, 1, 63>>, <<913, 929, 1, 32>>, <<931, 939, 1, 32>>,
    <<975, 975, 1, 8>>, <<984, 1006, 2, 1>>, <<1012, 1012, 1, -60>>, <<1015, 1015, 1, 1>>,
    <<1017, 1017, 1, -7>>, <<1018, 1018, 1, 1>>, <<1021, 1023, 1, -130>>,
    <<1024, 1039, 1, 80>>, <<1040, 1071, 1, 32>>, <<1120, 1152, 2, 1>>, <<1162, 1214, 2, 1>>,
    <<1216, 1216, 1, 15>>, <<1217, 1229, 2, 1>>, <<1232, 1326, 2, 1>>, <<1329, 1366, 1, 48>>,
    <<4256, 4293, 1, 7264>>, <<4295, 4295, 1, 7264>>, <<4301, 4301, 1, 7264>>,
    <<5024, 5103, 1, 38864>>, <<5104, 5109, 1, 8>>, <<7312, 7354, 1, -3008>>,
    <<7357, 7359, 1, -3008>>, <<7680, 7828, 2, 1>>, <<7838, 7838, 1, -7615>>,
    <<7840, 7934, 2, 1>>, <<7944, 7951, 1, -8>>, <<7960, 7965, 1, -8>>, <<7976, 7983, 1, -8>>,
    <<7992, 7999, 1, -8>>, <<8008, 8013, 1, -8>>, <<8025, 8031, 2, -8>>, <<8040, 8047, 1, -8>>,
    <<8072, 8079, 1, -8>>, <<8088, 8095, 1, -8>>, <<8104, 8111, 1, -8>>, <<8120, 8121, 1, -8>>,
    <<8122, 8123, 1, -74>>, <<8124, 8124, 1, -9>>, <<8136, 8139, 1, -86>>,
    <<8140, 8140, 1, -9>>, <<8152, 8153, 1, -8>>, <<8154, 8155, 1, -100>>,
    <<8168, 8169, 1, -8>>, <<8170, 8171, 1, -112>>, <<8172, 8172, 1, -7>>,
    <<8184, 8185, 1, -128>>, <<8186, 8187, 1, -126>>, <<8188, 8188, 1, -9>>,
    <<8486, 8486, 1, -7517>>, <<8490, 8490, 1, -8383>>, <<8491, 8491, 1, -8262>>,
    <<8498, 8498, 1, 28>>, <<8544, 8559, 1, 16>>, <<8579, 8579, 1, 1>>, <<9398, 9423, 1, 26>>,
    <<11264, 11311, 1, 48>>, <<11360, 11360, 1, 1>>, <<11362, 11362, 1, -10743>>,
    <<11363, 11363, 1, -3814>>, <<11364, 11364, 1, -10727>>, <<11367, 11371, 2, 1>>,
    <<11373, 11373, 1, -10780>>, <<11374, 11374, 1, -10749>>, <<11375, 11375, 1, -10783>>,
    <<11376, 11376, 1, -10782>>, <<11378, 11378, 1, 1>>, <<11381, 11381, 1, 1>>,
    <<11390, 11391, 1, -10815>>, <<11392, 11490, 2, 1>>, <<11499, 11501, 2, 1>>,
    <<11506, 11506, 1, 1>>, <<42560, 42604, 2, 1>>, <<42624, 42650, 2, 1>>,
    <<42786, 42798, 2, 1>>, <<42802, 42862, 2, 1>>, <<42873, 42875, 2, 1>>,
    <<42877, 42877, 1, -35332>>, <<42878, 42886, 2, 1>>, <<42891, 42891, 1, 1>>,
    <<42893, 42893, 1, -42280>>, <<42896, 42898, 2, 1>>, <<42902, 42920, 2, 1>>,
    <<42922, 42922, 1, -42308>>, <<42923, 42923, 1, -42319>>, <<42924, 42924, 1, -42315>>,
    <<42925, 42925, 1, -42305>>, <<42926, 42926, 1, -42308>>, <<42928, 42928, 1, -42258>>,
    <<42929, 42929, 1, -42282>>, <<42930, 42930, 1, -42261>>, <<42931, 42931, 1, 928>>,
    <<42932, 42946, 2, 1>>, <<42948, 42948, 1, -48>>, <<42949, 42949, 1, -42307>>,
    <<42950, 42950, 1, -35384>>, <<42951, 42953, 2, 1>>, <<42960, 42960, 1, 1>>,
    <<42966, 42968, 2, 1>>, <<42997, 42997, 1, 1>>, <<65313, 65338, 1, 32>>,
    <<66560, 66599, 1, 40>>, <<66736, 66771, 1, 40>>, <<66928, 66938, 1, 39>>,
    <<66940, 66954, 1, 39>>, <<66956, 66962, 1, 39>>, <<66964, 66965, 1, 39>>,
    <<68736, 68786, 1, 64>>, <<71840, 71871, 1, 32>>, <<93760, 93791, 1, 32>>,
    <<125184, 125217, 1, 34>>>>

\* unicode.ToLower
ToLowerRune(r) ==
  LET hits == {i \in 1..Len(CaseRanges) :
                 /\ CaseRanges[i][1] <= r
                 /\ r <= CaseRanges[i][2]
                 /\ (r - CaseRanges[i][1]) % CaseRanges[i][3] = 0}
  IN IF r < 128 THEN IF r >= 65 /\ r <= 90 THEN r + 32 ELSE r
     ELSE IF hits = {} THEN r
     ELSE r + CaseRanges[CHOOSE i \in hits : TRUE][4]

\* strings.ToLower: strings.Map(unicode.ToLower, s), rune by rune.  A byte
\* that is no valid encoding is replaced by the encoding of RuneError.
KelvinSign == <<226, 132, 170>>
RECURSIVE ToLower(_)
ToLower(str) ==
  IF str = <<>> THEN <<>>
  ELSE LET d == DecodeRune(str)
       IN EncodeRune(ToLowerRune(d.rune)) \o ToLower(SubSeq(str, d.size + 1, Len(str)))

\* strings.Contains
Contains(str, substr) ==
  \E i \in 1..(Len(str) + 1) :
     i + Len(substr) - 1 <= Len(str) /\ SubSeq(str, i, i + Len(substr) - 1) = substr

\* contains (hub.go): the lengths are compared before the strings are
\* lowered.
contains(str, substr) ==
  IF Len(substr) = 0 THEN TRUE
  ELSE IF Len(str) < Len(substr) THEN FALSE
  ELSE Contains(ToLower(str), ToLower(substr))

\* Hub.SearchUsers; ord is the order in which range h.Users yields keys.
RECURSIVE SearchUsers(_, _, _)
SearchUsers(query, excludeUsername, ord) ==
  IF ord = <<>> THEN <<>>
  ELSE LET username == Head(ord)
           rest == SearchUsers(query, excludeUsername, Tail(ord))
       IN IF username = excludeUsername THEN rest
          ELSE IF Len(query) = 0 \/ contains(username, query)
               THEN <<[Username |-> username, Online |-> Users[username].Online]>> \o rest
               ELSE rest

(***************************************************************************)
(* The session layer (http.go): HandleLogin, HandleLogout, sessionStore.   *)
(***************************************************************************)
\* unicode.IsSpace: the white space of ASCII and Latin-1 and the runes
\* with the property White_Space (unicode/graphic.go, tables.go).
IsSpace(r) ==
  \/ r \in {9, 10, 11, 12, 13, 32, 133, 160, 5760, 8232, 8233, 8239, 8287, 12288}
  \/ (r >= 8192 /\ r <= 8202)

\* strings.TrimLeftFunc(s, unicode.IsSpace)
RECURSIVE TrimLeft(_)
TrimLeft(str) ==
  IF str # <<>> /\ IsSpace(DecodeRune(str).rune)
  THEN TrimLeft(SubSeq(str, DecodeRune(str).size + 1, Len(str)))
  ELSE str

\* strings.TrimRightFunc(s, unicode.IsSpace)
RECURSIVE TrimRight(_)
TrimRight(str) ==
  IF str # <<>> /\ IsSpace(DecodeLastRune(str).rune)
  THEN TrimRight(SubSeq(str, 1, Len(str) - DecodeLastRune(str).size))
  ELSE str

\* strings.TrimSpace
TrimSpace(str) == TrimRight(TrimLeft(str))

\* The username check of HandleLogin: 1 to 50 characters, each a letter, a
\* digit or an underscore.
UsernameChar(b) == (b >= 97 /\ b <= 122) \/ (b >= 65 /\ b <= 90) \/ (b >= 48 /\ b <= 57) \/ b = 95
ValidUsername(username) ==
  /\ Len(username) > 0
  /\ Len(username) <= 50
  /\ \A i \in 1..Len(username) : UsernameChar(username[i])

\* generateSessionID: the clock reading, printed.  A session expires 24
\* hours after its creation, later than any instant the clock of the model
\* reaches.
generateSessionID == now

\* A variant of LoginCode without the check for an active connection.
LoginCode_NoConflictCheck(username) == IF ~ValidUsername(username) THEN 400 ELSE 200

\* What HandleLogin decides up to h.Hub.mu.RUnlock(): the status code it
\* answers with, 200 for a request that goes on to CreateSession.
LoginCode(username) ==
  IF ~ValidUsername(username) THEN 400
  ELSE IF HasActiveConn(username) THEN 409
  ELSE 200

\* POST /api/login with the body {username: name}, up to
\* h.Hub.mu.RUnlock(): the name is trimmed and validated and the hub is
\* asked for an active connection.  A request that is refused is answered
\* at once; the others have yet to create their session.
HandleLogin(name) ==
  /\ Alive
  /\ ValidUsername(TrimSpace(name)) => ~HubHoldsLock
  /\ LET username == TrimSpace(name)
         code == LoginCode(username)
     IN logins' = Append(logins, [user |-> username, id |-> -1,
                                  code |-> IF code = 200 THEN 0 ELSE code,
                                  pc |-> IF code = 200 THEN "create" ELSE "done"])
  /\ UNCHANGED <<hubVars, Conversations, typingEvents, hub, http, rd, wr, sock, nextId, nTyping,
                 now, routes, evictions, installed, sessions, logouts, browser>>

\* sessionStore.CreateSession(username) of the i-th login, and the answer.
CreateSession(i) ==
  /\ Alive
  /\ i \in 1..Len(logins)
  /\ logins[i].pc = "create"
  /\ LET sessionID == generateSessionID
     IN /\ sessions' = Put(sessions, sessionID, logins[i].user)
        /\ logins' = [logins EXCEPT ![i].id = sessionID, ![i].code = 200, ![i].pc = "done"]
  /\ UNCHANGED <<hubVars, Conversations, typingEvents, hub, http, rd, wr, sock, nextId, nTyping,
                 now, routes, evictions, installed, logouts, browser>>

\* The session ids handed out as cookies so far.
Cookies == {logins[i].id : i \in {j \in 1..Len(logins) : logins[j].code = 200}}

\* POST /api/logout with the cookie id, up to sessionStore.GetSession: a
\* cookie without a session is answered 401.
HandleLogout(id) ==
  /\ Alive
  /\ logouts' = Append(logouts,
                       IF Has(sessions, id)
                       THEN [id |-> id, user |-> sessions[id], client |-> None, pc |-> "lookup"]
                       ELSE [id |-> id, user |-> None, client |-> None, pc |-> "unauthorized"])
  /\ UNCHANGED <<hubVars, Conversations, typingEvents, hub, http, rd, wr, sock, nextId, nTyping,
                 now, routes, evictions, installed, sessions, logins, browser>>

\* HandleLogout from h.Hub.mu.Lock() to h.Hub.mu.Unlock(): the client
\* registered for the session's user is looked up.
LogoutLookup(i) ==
  /\ Alive
  /\ ~HubHoldsLock
  /\ i \in 1..Len(logouts)
  /\ logouts[i].pc = "lookup"
  /\ LET client == Lookup(Clients, logouts[i].user)
     IN logouts' = [logouts EXCEPT ![i].client = client,
                                   ![i].pc = IF client # None THEN "send" ELSE "delete"]
  /\ UNCHANGED <<hubVars, Conversations, typingEvents, hub, http, rd, wr, sock, nextId, nTyping,
                 now, routes, evictions, installed, sessions, logins, browser>>

\* h.Hub.Unregister <- client in HandleLogout: the send on the unbuffered
\* channel completes when Hub.Run waits in its select.
LogoutUnregister(i) ==
  /\ Alive
  /\ i \in 1..Len(logouts)
  /\ logouts[i].pc = "send"
  /\ hub.op = "select"
  /\ hub' = [Idle EXCEPT !.op = "unregister", !.client = logouts[i].client]
  /\ logouts' = [logouts EXCEPT ![i].pc = "delete"]
  /\ UNCHANGED <<hubVars, Conversations, typingEvents, http, rd, wr, sock, nextId, nTyping,
                 now, routes, evictions, installed, sessions, logins, browser>>

\* sessionStore.DeleteSession(sessionID) in HandleLogout, and the answer.
LogoutDeleteSession(i) ==
  /\ Alive
  /\ i \in 1..Len(logouts)
  /\ logouts[i].pc = "delete"
  /\ sessions' = Del(sessions, logouts[i].id)
  /\ logouts' = [logouts EXCEPT ![i].pc = "done"]
  /\ UNCHANGED <<hubVars, Conversations, typingEvents, hub, http, rd, wr, sock, nextId, nTyping,
                 now, routes, evictions, installed, logins, browser>>

\* SessionStore.DeleteSessionByUsername: every session of the user is
\* deleted.  No handler calls it, so it is a step of no specification.
DeleteSessionByUsername(username) ==
  /\ Alive
  /\ sessions' = [id \in {x \in DOMAIN sessions : sessions[x] # username} |-> sessions[id]]
  /\ UNCHANGED <<hubVars, Conversations, typingEvents, hub, http, rd, wr, sock, nextId, nTyping,
                 now, routes, evictions, installed, logins, logouts, browser>>

\* The clock advances.
Tick ==
  /\ Alive
  /\ now' = now + 1
  /\ UNCHANGED <<hubVars, Conversations, typingEvents, hub, http, rd, wr, sock, nextId, nTyping,
                 routes, evictions, installed, webVars, browser>>

(***************************************************************************)
(* WebSocketClient (frontend/src/api/websocket.ts).  The handlers of the   *)
(* browser run one at a time, so each is one step.                         *)
(***************************************************************************)
maxReconnectAttempts == 10

\* How many sockets one client is followed through.
MaxSockets == 7

\* connect(): new WebSocket(wsUrl), kept in this.ws.
connect(b) ==
  [b EXCEPT !.sockets = Append(b.sockets, "connecting"), !.ws = Len(b.sockets) + 1]

\* attemptReconnect(): gives up at maxReconnectAttempts, otherwise counts
\* the attempt and sets the timer whose callback calls connect().
attemptReconnect(b) ==
  IF b.reconnectAttempts >= maxReconnectAttempts THEN b
  ELSE [b EXCEPT !.reconnectAttempts = @ + 1, !.timers = @ + 1]

\* disconnect(): closes the socket this.ws holds, if any, and sets
\* reconnectAttempts to the maximum.
disconnect(b) ==
  LET b1 == IF b.ws # 0
            THEN [b EXCEPT !.sockets[b.ws] = IF @ \in {"connecting", "open"} THEN "closing" ELSE @,
                           !.ws = 0]
            ELSE b
  IN [b1 EXCEPT !.reconnectAttempts = maxReconnectAttempts, !.disconnected = TRUE]

\* The application calls connect() once, when the chat page is mounted.
AppConnect ==
  /\ browser.sockets = <<>>
  /\ ~browser.disconnected
  /\ browser' = connect(browser)
  /\ UNCHANGED <<hubVars, Conversations, typingEvents, hub, http, rd, wr, sock, nextId, nTyping,
                 now, routes, evictions, installed, webVars>>

\* ws.onopen of socket i
SocketOpens(i) ==
  /\ i \in 1..Len(browser.sockets)
  /\ browser.sockets[i] = "connecting"
  /\ browser' = [browser EXCEPT !.sockets[i] = "open", !.reconnectAttempts = 0]
  /\ UNCHANGED <<hubVars, Conversations, typingEvents, hub, http, rd, wr, sock, nextId, nTyping,
                 now, routes, evictions, installed, webVars>>

\* ws.onclose of socket i: the connection attempt failed, the server or the
\* network ended the connection, or the close that ws.close() started is
\* complete.
SocketCloses(i) ==
  /\ i \in 1..Len(browser.sockets)
  /\ browser.sockets[i] # "closed"
  /\ browser' = attemptReconnect([browser EXCEPT !.sockets[i] = "closed", !.ws = 0])
  /\ UNCHANGED <<hubVars, Conversations, typingEvents, hub, http, rd, wr, sock, nextId, nTyping,
                 now, routes, evictions, installed, webVars>>

\* The callback of attemptReconnect's setTimeout: this.connect()
TimerFires ==
  /\ browser.timers > 0
  /\ Len(browser.sockets) < MaxSockets
  /\ browser' = connect([browser EXCEPT !.timers = @ - 1])
  /\ UNCHANGED <<hubVars, Conversations, typingEvents, hub, http, rd, wr, sock, nextId, nTyping,
                 now, routes, evictions, installed, webVars>>

\* The application calls disconnect().
Disconnect ==
  /\ browser.sockets # <<>>
  /\ browser' = disconnect(browser)
  /\ UNCHANGED <<hubVars, Conversations, typingEvents, hub, http, rd, wr, sock, nextId, nTyping,
                 now, routes, evictions, installed, webVars>>

(***************************************************************************)
(* The hub with all its goroutines.  The groups below are the goroutines'  *)
(* steps for the connections in CS; a specification is a choice of the     *)
(* connections that are opened and of the frames their clients send.       *)
(***************************************************************************)
\* HandleWebSocket for the requests of CS, Hub.Run, and the ends of the
\* connections (socket failure, read error, unregister, writer exit).
Connecting(CS) ==
  \/ \E c \in CS : Admission(c)
  \/ \E c \in CS : Upgrade(c)
  \/ \E c \in CS : UpgradeFails(c)
  \/ \E c \in CS : RegisterHandoff(c)
  \/ \E c \in CS : RegisterDropped(c)
  \/ HubRegister

\* F are the connections whose peer may close the socket.
Disconnecting(CS, F) ==
  \/ \E c \in F : SocketFail(c)
  \/ \E c \in CS : ReadError(c)
  \/ \E c \in CS : UnregisterHandoff(c)
  \/ HubUnregister
  \/ HubUnregisterClose

\* The loops of registerClient and unregisterClient, which have a client to
\* send to once the hub knows a second identity.
Broadcasting ==
  \/ HubBroadcastStatus
  \/ HubSendOnline

Writing(CS) ==
  \/ \E c \in CS : WriterSend(c)
  \/ \E c \in CS : WriterLen(c)
  \/ \E c \in CS : WriterDrain(c)
  \/ \E c \in CS : WriterClosed(c)
  \/ \E c \in CS : WriterPingFails(c)

\* The writers of clients whose queues never hold a frame.
WritingIdle(CS) ==
  \/ \E c \in CS : WriterClosed(c)
  \/ \E c \in CS : WriterPingFails(c)

\* The clients of CS send up to n "message" frames addressed to the names
\* in R.
RoutingUpTo(CS, R, n) ==
  \/ /\ nextId + Cardinality(AtLock) < n
     /\ \E c \in CS, to \in R, content \in Contents : ReadInbound(c, to, content)
  \/ \E c \in CS : handleInboundMessageWithSender(c)
  \/ \E c \in CS : RouteSendSender(c)
  \/ \E c \in CS : RouteSendRecipient(c)
  \/ \E c \in CS : RouteMarkDelivered(c)
  \/ \E c \in CS : RouteSendAck(c)
  \/ \E c \in CS : RouteClose(c)
  \/ \E c \in CS : RouteDelete(c)

Routing(CS, R) == RoutingUpTo(CS, R, MaxMsgs)

\* The clock.
Clock ==
  /\ now < MaxTime
  /\ Tick

\* The clients of CS send "typing" frames addressed to the names in R.
Typing(CS, R) ==
  \/ /\ nTyping < MaxTyping
     /\ \E c \in CS, to \in R, isTyping \in BOOLEAN : ReadTyping(c, to, isTyping)
  \/ TypingReceive
  \/ HubTyping

\* Up to n logins with the names of LN.
LoggingIn(LN, n) ==
  \/ /\ Len(logins) < n
     /\ \E name \in LN : HandleLogin(name)
  \/ \E i \in 1..Len(logins) : CreateSession(i)

\* Up to n logouts with the cookies handed out.
LoggingOut(n) ==
  \/ /\ Len(logouts) < n
     /\ \E id \in Cookies : HandleLogout(id)
  \/ \E i \in 1..Len(logouts) : LogoutLookup(i)
  \/ \E i \in 1..Len(logouts) : LogoutUnregister(i)
  \/ \E i \in 1..Len(logouts) : LogoutDeleteSession(i)

\* Logins with the names of LN, logouts, and the clock.
Sessions(LN) ==
  \/ LoggingIn(LN, MaxLogins)
  \/ LoggingOut(MaxLogouts)
  \/ Clock

\* HandleWebSocket for requests that carry the cookie of a session.
ConnectingWithSession(CS) ==
  \/ \E c \in CS : GetSession(c)
  \/ \E c \in CS : AdmissionAt(c, "session")
  \/ \E c \in CS : Upgrade(c)
  \/ \E c \in CS : UpgradeFails(c)
  \/ \E c \in CS : RegisterHandoff(c)
  \/ \E c \in CS : RegisterDropped(c)
  \/ HubRegister

\* Two clients, alice's and bob's, which send messages to alice, to bob and
\* to carol, who never connects.
Next ==
  \/ Connecting(AliceBobConns)
  \/ Broadcasting
  \/ Disconnecting(AliceBobConns, AliceBobConns)
  \/ Writing(AliceBobConns)
  \/ Routing(AliceBobConns, Recipients)

Spec == Init /\ [][Next]_vars

\* The same two clients, with alice's the only one that sends.
NextRoute ==
  \/ Connecting(AliceBobConns)
  \/ Broadcasting
  \/ Disconnecting(AliceBobConns, AliceBobConns)
  \/ Writing(AliceBobConns)
  \/ Routing({"a1"}, Recipients)

SpecRoute == Init /\ [][NextRoute]_vars

\* Four connections, two of them alice's; no client sends a frame, and the
\* writer of carol's connection never gets to take one.
NextConn ==
  \/ Connecting(FourConns)
  \/ Broadcasting
  \/ Disconnecting(FourConns, {"a1"})
  \/ Writing(ThreeConns)

SpecConn == Init /\ [][NextConn]_vars

\* Two clients, alice's and bob's, which send typing signals to alice, to bob
\* and to carol, who never connects.
NextTyping ==
  \/ Connecting(AliceBobConns)
  \/ Broadcasting
  \/ Disconnecting(AliceBobConns, {"a1"})
  \/ Writing(AliceBobConns)
  \/ Typing(AliceBobConns, Recipients)

SpecTyping == Init /\ [][NextTyping]_vars

\* The recipient strings of SpecLog: two identities and a string with the
\* separator of the conversation keys in it ("b|c").
LogRecipients == {alice, bob, <<98, Bar, 99>>}

\* Two clients, alice's and bob's, which send messages while the clock
\* advances; no connection ends and no writer takes a frame.
NextLog ==
  \/ Connecting(AliceBobConns)
  \/ Broadcasting
  \/ RoutingUpTo(AliceBobConns, LogRecipients, MaxLogMsgs)
  \/ Clock

SpecLog == Init /\ [][NextLog]_vars

\* The same, with alice's client the only one that sends.
NextList ==
  \/ Connecting(AliceBobConns)
  \/ Broadcasting
  \/ RoutingUpTo({"a1"}, LogRecipients, MaxLogMsgs)
  \/ Clock

SpecList == Init /\ [][NextList]_vars

\* Two clients, alice's and bob's; alice's sends messages and typing
\* signals to bob.
NextLive ==
  \/ Connecting(AliceBobConns)
  \/ Broadcasting
  \/ Disconnecting(AliceBobConns, {"a1"})
  \/ Writing(AliceBobConns)
  \/ Routing({"a1"}, {bob})
  \/ Typing({"a1"}, {bob})

\* The goroutine of Hub.Run keeps running: a handler it has entered
\* returns, and its select, which picks at random among the channels that
\* are ready, sooner or later picks each of them.  Nothing is assumed of
\* the writers.
HubFairness ==
  /\ WF_vars(HubRegister)
  /\ WF_vars(HubUnregister)
  /\ WF_vars(HubUnregisterClose)
  /\ WF_vars(HubBroadcastStatus)
  /\ WF_vars(HubSendOnline)
  /\ WF_vars(HubTyping)
  /\ SF_vars(TypingReceive)
  /\ \A c \in {"a1", "b1"} : SF_vars(UnregisterHandoff(c))

SpecLive == Init /\ [][NextLive]_vars /\ HubFairness

\* Two clients, alice's and bob's, whose sockets may fail; no client sends
\* a frame.
NextPumps ==
  \/ Connecting(AliceBobConns)
  \/ Broadcasting
  \/ Disconnecting(AliceBobConns, AliceBobConns)
  \/ Writing(AliceBobConns)

\* The pumps keep running: a reader whose socket has failed gets the error
\* from ReadMessage, and a writer goes on whenever it can, its ticker firing
\* in the end.
PumpFairness ==
  \A c \in {"a1", "b1"} :
    /\ WF_vars(ReadError(c))
    /\ WF_vars(WriterSend(c))
    /\ WF_vars(WriterLen(c))
    /\ WF_vars(WriterDrain(c))
    /\ WF_vars(WriterClosed(c))
    /\ WF_vars(WriterPingFails(c))

SpecPumps == Init /\ [][NextPumps]_vars /\ HubFairness /\ PumpFairness

\* Two clients, alice's and bob's.  alice logs in, connects with her
\* cookie and logs out once; bob's session, which no logout deletes, is not
\* followed.  bob's client sends messages to alice and its socket may fail;
\* the hub and the pumps keep running.
NextCancel ==
  \/ LoggingIn({alice}, 1)
  \/ LoggingOut(1)
  \/ ConnectingWithSession({"a1"})
  \/ Connecting({"b1"})
  \/ Broadcasting
  \/ Disconnecting(AliceBobConns, {"b1"})
  \/ Writing(AliceBobConns)
  \/ Routing({"b1"}, {alice})

SpecCancel == Init /\ [][NextCancel]_vars /\ HubFairness /\ PumpFairness

\* The recipient strings of SpecKeys: an identity, two strings with the
\* separator of the conversation keys in them ("b|c" and "a|b"), and the
\* empty string.
KeyRecipients == {carol, <<98, Bar, 99>>, <<97, Bar, 98>>, <<>>}

\* Two clients, alice's and carol's, which send messages to those strings;
\* no connection ends and no writer takes a frame.
NextKeys ==
  \/ Connecting(AliceCarolConns)
  \/ Broadcasting
  \/ RoutingUpTo(AliceCarolConns, KeyRecipients, MaxLogMsgs)

SpecKeys == Init /\ [][NextKeys]_vars

\* The clients of CS send frames that readPump skips.
Skipping(CS) == \E c \in CS, frame \in InboundFrames : ReadSkipped(c, frame)

\* Two clients, alice's and bob's; alice's sends messages to bob, and both
\* send frames that are skipped; no connection ends and no writer takes a
\* frame.
NextFrames ==
  \/ Connecting(AliceBobConns)
  \/ Broadcasting
  \/ Routing({"a1"}, {bob})
  \/ Skipping(AliceBobConns)

SpecFrames == Init /\ [][NextFrames]_vars

\* Two clients, alice's and bob's; alice's sends messages and typing
\* signals to bob, whose queue fills up as no writer takes a frame.
NextPresence ==
  \/ Connecting(AliceBobConns)
  \/ Broadcasting
  \/ Disconnecting(AliceBobConns, {"a1"})
  \/ Routing({"a1"}, {bob})
  \/ Typing({"a1"}, {bob})

SpecPresence == Init /\ [][NextPresence]_vars

\* HandleWebSocket keeps running: after the upgrade its select with a
\* default branch completes one way or the other.
UpgradeFairness ==
  \A c \in {"a1", "b1"} : WF_vars(RegisterHandoff(c) \/ RegisterDropped(c))

\* The clients of SpecPumps, with the requests, the hub and the pumps kept
\* running.
SpecAdmit == Init /\ [][NextPumps]_vars /\ HubFairness /\ PumpFairness /\ UpgradeFairness

\* Two connections of alice and one of bob, whose client sends messages to
\* alice; alice's first socket may fail, and no writer takes a frame.
NextStale ==
  \/ Connecting(ThreeConns)
  \/ Broadcasting
  \/ Disconnecting(ThreeConns, {"a1"})
  \/ Routing({"b1"}, {alice})

SpecStale == Init /\ [][NextStale]_vars

\* Two connections of alice and one of bob; the client of alice's first
\* connection sends messages to bob, and no writer takes a frame.
NextSender ==
  \/ Connecting(ThreeConns)
  \/ Broadcasting
  \/ Routing({"a1"}, {bob})

SpecSender == Init /\ [][NextSender]_vars

\* Two clients, alice's and bob's, which send messages to each other while
\* the writers empty the queues; alice's socket may fail.
NextOrder ==
  \/ Connecting(AliceBobConns)
  \/ Broadcasting
  \/ Disconnecting(AliceBobConns, {"a1"})
  \/ Writing(AliceBobConns)
  \/ RoutingUpTo({"a1"}, {bob}, MaxLogMsgs)
  \/ RoutingUpTo({"b1"}, {alice}, MaxLogMsgs)

SpecOrder == Init /\ [][NextOrder]_vars

\* One browser tab: its WebSocketClient, its sockets and its timers.
NextBrowser ==
  \/ AppConnect
  \/ \E i \in 1..MaxSockets : SocketOpens(i)
  \/ \E i \in 1..MaxSockets : SocketCloses(i)
  \/ TimerFires
  \/ Disconnect

SpecBrowser == Init /\ [][NextBrowser]_vars

\* Two connections of alice and one of kay; no client sends a frame.
NextSearch ==
  \/ Connecting(AliceKayConns)
  \/ Broadcasting
  \/ Disconnecting(AliceKayConns, {"a1"})
  \/ Writing(AliceKayConns)

SpecSearch == Init /\ [][NextSearch]_vars

\* The names sent to POST /api/login: a username, the same between a
\* no-break space and a space, and one that the validation refuses.
LoginNames == {alice, <<194, 160, 97, 32>>, <<Bar>>}

\* Logins, logouts and the two connections of alice; no client sends a
\* frame, and alice, the only user, is sent none: the loops of
\* registerClient and unregisterClient find no one to send to.
NextSess ==
  \/ Sessions(LoginNames)
  \/ ConnectingWithSession(AliceConns)
  \/ Disconnecting(AliceConns, {"a1"})
  \/ WritingIdle(AliceConns)

SpecSess == Init /\ [][NextSess]_vars

\* The same with one logout at most: logins, and the two connections of
\* alice opened with the cookie of a session.
NextConflict ==
  \/ LoggingIn(LoginNames, MaxLogins)
  \/ LoggingOut(1)
  \/ Clock
  \/ ConnectingWithSession(AliceConns)
  \/ Disconnecting(AliceConns, {"a1"})
  \/ WritingIdle(AliceConns)

SpecConflict == Init /\ [][NextConflict]_vars

(***************************************************************************)
(* Properties.                                                             *)
(***************************************************************************)
\* c is the connection h.Clients holds for its identity.
Registered(c) == Has(Clients, ConnUser(c)) /\ Clients[ConnUser(c)] = c
RegisteredNext(c) == Has(Clients', ConnUser(c)) /\ Clients'[ConnUser(c)] = c

\* A step in which registerClient returns.
RegisterReturns == hub.op \in RegisterOps /\ hub'.op = "select" /\ panicked' = NoPanic

\* What the handler that Hub.Run is in, or enters in this step, found when
\* it took h.mu.
AtEntry == IF hub.op \in {"register", "unregister"} THEN Entered ELSE hub.entry

\* c was the connection of its identity in the table when the handler took
\* h.mu.
RegisteredAtEntry(c) ==
  Has(AtEntry.Clients, ConnUser(c)) /\ AtEntry.Clients[ConnUser(c)] = c

\* C1: every identity has at most one registered connection, and a Register
\* processed for an identity that already has a registered connection
\* leaves the earlier connection's queue closed and the new connection
\* installed when it returns.
C1_RegisterEvictsAndInstalls ==
  [][RegisterReturns =>
       /\ \A u \in {alice, bob, carol} :
             Cardinality({c \in Conns : ConnUser(c) = u /\ RegisteredNext(c)}) <= 1
       /\ Has(AtEntry.Clients, ConnUser(hub.client)) =>
             /\ closed'[AtEntry.Clients[ConnUser(hub.client)]]
             /\ RegisteredNext(hub.client)]_vars

(***************************************************************************)
(* RouteMessage: what each call of handleInboundMessageWithSender left.    *)
(***************************************************************************)
RoutePcs == {"sendSender", "sendRecip", "mark", "ack", "close", "delete"}

\* The stored message with the given id, and whether the call that routed
\* it has returned.
Stored(id) == Conversations[routes[id].key][routes[id].idx]
RouteDone(id) ==
  LET c == routes[id].conn
  IN ~(rd[c].pc \in RoutePcs /\ rd[c].key = routes[id].key /\ rd[c].idx = routes[id].idx)

\* Positions in a queue's history of the ack and of the message frames of id.
AckAt(q, id) == {i \in 1..Len(q) : q[i].type = "ack" /\ q[i].messageId = id}
MsgAt(q, id, status) ==
  {i \in 1..Len(q) : q[i].type = "message" /\ q[i].id = id /\ q[i].status = status}

RECURSIVE SumOver(_, _)
SumOver(S, f) == IF S = {} THEN 0 ELSE LET x == CHOOSE y \in S : TRUE IN f[x] + SumOver(S \ {x}, f)
TotalAcks(id) == SumOver(Conns, [c \in Conns |-> Cardinality(AckAt(enq[c], id))])
TotalDelivered(id) == SumOver(Conns, [c \in Conns |-> Cardinality(MsgAt(enq[c], id, "delivered"))])

\* C2: for every call of RouteMessage, a recipient registered at call time
\* means that, once the call has returned, exactly one ack{delivered} for
\* the message id has been enqueued, on the queue of the connection that
\* sent it, and the stored deliveryState is delivered; a recipient not
\* registered means no ack is ever enqueued and deliveryState stays sent.
C2_ExactlyOneAck ==
  \A id \in DOMAIN routes :
    LET r == routes[id]
    IN /\ r.recip = None => TotalAcks(id) = 0 /\ Stored(id).Status = "sent"
       /\ (r.recip # None /\ RouteDone(id)) =>
             /\ Cardinality(AckAt(enq[r.conn], id)) = 1
             /\ TotalAcks(id) = 1
             /\ Stored(id).Status = "delivered"

\* Positions of the message id in what GetConversation returns for a pair.
InLog(id, from, to) == {i \in 1..Len(GetConversationMessages(from, to)) :
                          GetConversationMessages(from, to)[i].ID = id}

\* C3 as stated: a call from a registered sender to a different
\* registered recipient that has returned left message{sent} before
\* ack{delivered} on the sender's queue, exactly one message{delivered} on
\* the recipient's queue, and the message once in the conversation.
C3_AsStated ==
  \A id \in DOMAIN routes :
    LET r == routes[id]
    IN (r.sender # None /\ r.recip # None /\ r.sender # r.recip /\ RouteDone(id)) =>
         /\ \E i \in MsgAt(enq[r.sender], id, "sent") : \E j \in AckAt(enq[r.sender], id) : i < j
         /\ Cardinality(MsgAt(enq[r.recip], id, "delivered")) = 1
         /\ Cardinality(InLog(id, Stored(id).From, Stored(id).To)) = 1

\* C3 (amended): for a call from a registered sender to a different
\* registered recipient, an ack{delivered} on the sender's queue is always
\* preceded there by message{sent} for the same id, and both are there once
\* the call has returned unless the sender's queue was closed for overflow;
\* at most one message{delivered} for the id is ever enqueued, only on the
\* recipient's connection found at call time, and exactly one once the call
\* has returned unless that queue was closed for overflow; GetConversation
\* for the pair contains the message exactly once.
C3_SentThenAck ==
  \A id \in DOMAIN routes :
    LET r == routes[id]
    IN (r.sender # None /\ r.recip # None /\ r.sender # r.recip) =>
         /\ \A j \in AckAt(enq[r.sender], id) : \E i \in MsgAt(enq[r.sender], id, "sent") : i < j
         /\ Cardinality(MsgAt(enq[r.sender], id, "sent")) <= 1
         /\ (RouteDone(id) /\ r.sender \notin overflowed) =>
               /\ Cardinality(MsgAt(enq[r.sender], id, "sent")) = 1
               /\ Cardinality(AckAt(enq[r.sender], id)) = 1
         /\ TotalDelivered(id) <= 1
         /\ \A c \in Conns : MsgAt(enq[c], id, "delivered") # {} => c = r.recip
         /\ (RouteDone(id) /\ r.recip \notin overflowed) =>
               Cardinality(MsgAt(enq[r.recip], id, "delivered")) = 1
         /\ Cardinality(InLog(id, Stored(id).From, Stored(id).To)) = 1
         /\ GetConversationMessages(Stored(id).From, Stored(id).To)
              = GetConversationMessages(Stored(id).To, Stored(id).From)

\* The scenario of the claim: the call has returned with sent and ack on the
\* sender's queue and delivered on the recipient's.
C3_Witness ==
  \E id \in DOMAIN routes :
    LET r == routes[id]
    IN /\ r.sender # None /\ r.recip # None /\ r.sender # r.recip
       /\ RouteDone(id)
       /\ \E i \in MsgAt(enq[r.sender], id, "sent") : \E j \in AckAt(enq[r.sender], id) : i < j
       /\ Cardinality(MsgAt(enq[r.recip], id, "delivered")) = 1

\* C4: the process never sends on an outbound queue that is already closed.
C4_NoSendOnClosedQueue == panicked # "send on closed channel"

\* C5: no outbound queue is ever closed twice.
C5_NoDoubleClose == panicked # "close of closed channel"

\* C6: every write to a hub map is made by a task that holds h.mu.Lock().
C6_WritesHoldWriteLock == unlockedWrites = {}

\* C7: Register, Unregister and RouteMessage take effect atomically: while a
\* RouteMessage is between its log append and its last delivery, no step of
\* another task changes the table, the presence map or the logs.
InRoute(c) == rd[c].pc \in RoutePcs
C7_RouteMessageIsAtomic ==
  [][\A c \in Conns : (InRoute(c) /\ rd'[c] = rd[c]) =>
        /\ Clients' = Clients
        /\ Users' = Users
        /\ Conversations' = Conversations]_vars

\* C8: a delivery to a full queue closes that queue and removes the
\* connection from the table in the same step, and leaves every connection
\* of another identity that was registered with an open queue as it was.
C8_OverflowClosesAndRemoves ==
  [][\A x \in Conns : (x \in overflowed' /\ x \notin overflowed) =>
        /\ closed'[x]
        /\ ~RegisteredNext(x)
        /\ \A y \in Conns :
              (ConnUser(y) # ConnUser(x) /\ Registered(y) /\ ~closed[y] /\ y \notin overflowed') =>
                 RegisteredNext(y) /\ ~closed'[y]]_vars

\* C9: once the disconnect of a connection removed for overflow has been
\* handled (its reader has ended and its Unregister has been processed), the
\* identity is offline and passes admission, unless a newer connection of
\* the identity is registered.
C9_OverflowIsDisconnect ==
  \A c \in overflowed :
    (rd[c].pc = "done" /\ hub.op = "select") =>
       \/ ~Users[ConnUser(c)].Online /\ ~HasActiveConn(ConnUser(c))
       \/ Has(Clients, ConnUser(c)) /\ Clients[ConnUser(c)] # c

\* C10: Unregister of the registered connection of an identity leaves it out
\* of the table, the identity offline and the connection's queue closed.
C10_UnregisterRemovesAndCloses ==
  [][(/\ hub.op \in UnregisterOps /\ hub'.op = "select"
      /\ (hub.op # "unregister" \/ Registered(hub.client))
      /\ panicked' = NoPanic) =>
       /\ ~RegisteredNext(hub.client)
       /\ ~Users'[ConnUser(hub.client)].Online
       /\ closed'[hub.client]]_vars

(***************************************************************************)
(* Unregister of a connection that is not the registered one.              *)
(***************************************************************************)
\* A step in which unregisterClient returns.
UnregisterReturns == hub.op \in UnregisterOps /\ hub'.op = "select"

\* The step in which unregisterClient is entered and compares its client
\* with the table.
UnregisterEnters == hub.op = "unregister" /\ hub' # hub

\* C11: unregisterClient for a connection that is not the registered
\* connection of its identity changes neither the table, nor the presence
\* records, nor any queue, nor the conversation logs, and enqueues no status
\* envelope.
C11_StaleUnregisterIsNoOp ==
  [][(UnregisterEnters /\ ~Registered(hub.client)) =>
        /\ UnregisterReturns
        /\ Clients' = Clients
        /\ Users' = Users
        /\ Send' = Send
        /\ closed' = closed
        /\ enq' = enq
        /\ Conversations' = Conversations
        /\ panicked' = panicked]_vars

\* The Unregister of an evicted connection has been processed after the
\* connection that replaced it was registered.
C11_Witness ==
  \E e \in evictions :
    /\ rd[e[1]].pc = "done"
    /\ hub.op = "select"
    /\ e[1] \notin unregistered
    /\ Registered(e[2])

(***************************************************************************)
(* Two connections of one identity that both passed admission.             *)
(***************************************************************************)
\* The Unregister that c's reader sent has been processed.
UnregisterProcessed(c) ==
  rd[c].pc = "done" /\ ~(hub.op \in UnregisterOps /\ hub.client = c)

\* c was registered when its registerClient returned and has since been
\* disconnected: unregistered, removed for overflow or evicted in its turn.
DisconnectedLater(c) ==
  /\ c \in installed
  /\ \/ c \in unregistered
     \/ c \in overflowed
     \/ \E e \in evictions : e[1] = c

\* C12: when the Register of a connection found an earlier connection of
\* the same identity registered (both had passed admission), then once the
\* Unregister of the earlier one has been processed the later one is in the
\* table with an open queue, the earlier one's queue is closed and the
\* identity is online, as long as the later one has not been disconnected
\* in its turn.
C12_LaterConnectionSurvives ==
  \A e \in evictions :
    (UnregisterProcessed(e[1]) /\ ~DisconnectedLater(e[2])) =>
       /\ Registered(e[2])
       /\ ~closed[e[2]]
       /\ closed[e[1]]
       /\ ~Registered(e[1])
       /\ Users[ConnUser(e[2])].Online

(***************************************************************************)
(* Admission: HandleLogin and HandleWebSocket.                             *)
(***************************************************************************)
\* The identity has a connection in h.Clients.
HasRegisteredConn(username) == \E c \in Conns : ConnUser(c) = username /\ Registered(c)

\* HandleLogin makes its check of a new request in this step.
LoginChecks == Len(logins') = Len(logins) + 1

\* HandleWebSocket makes its check of c's request in this step.
UpgradeChecks(c) == http[c] \in {"new", "session"} /\ http'[c] \in {"conflict", "checked"}

\* C13: a login, or a socket upgrade request, whose check finds a registered
\* connection of the identity is answered 409, and that step creates no
\* session, upgrades no socket and leaves the table, the presence records
\* and every queue as they were; a request answered 409 does nothing later:
\* it creates no session and its socket is never upgraded.
C13_ConflictIsRejected ==
  [][/\ (LoginChecks /\ HasRegisteredConn(logins'[Len(logins')].user)) =>
          /\ logins'[Len(logins')].code = 409
          /\ logins'[Len(logins')].pc = "done"
          /\ sessions' = sessions
          /\ sock' = sock
          /\ UNCHANGED <<Clients, Users, Send, closed, enq>>
     /\ \A i \in 1..Len(logins) : logins[i].code = 409 => logins'[i] = logins[i]
     /\ \A id \in (DOMAIN sessions') \ (DOMAIN sessions) :
          \E i \in 1..Len(logins) : logins[i].code # 409 /\ logins'[i].id = id
     /\ \A c \in Conns :
          /\ (UpgradeChecks(c) /\ HasRegisteredConn(ConnUser(c))) =>
                /\ http'[c] = "conflict"
                /\ sessions' = sessions
                /\ sock' = sock
                /\ UNCHANGED <<Clients, Users, Send, closed, enq>>
          /\ http[c] = "conflict" =>
                /\ http'[c] = "conflict"
                /\ sock'[c] = "none"
                /\ rd'[c] = rd[c] /\ wr'[c] = wr[c]]_vars

\* alice's first connection is registered with its queue open and she is
\* online; a login with her name and the upgrade request of her second
\* connection have been answered 409, no socket having been opened for it.
C13_Witness ==
  /\ Registered("a1") /\ ~closed["a1"] /\ Users[alice].Online
  /\ \E i \in 1..Len(logins) : logins[i].user = alice /\ logins[i].code = 409
  /\ http["a2"] = "conflict" /\ sock["a2"] = "none"

\* C14: no two sessions of sessionStore belong to the same username.
C14_SingleSession ==
  \A id1, id2 \in DOMAIN sessions : sessions[id1] = sessions[id2] => id1 = id2

(***************************************************************************)
(* Status broadcasts.                                                      *)
(***************************************************************************)
\* The frames a step appends to the history of c's queue, and how many of
\* them are the envelope env.
NewFrames(c) == SubSeq(enq'[c], Len(enq[c]) + 1, Len(enq'[c]))
NewCount(c, env) == Cardinality({i \in 1..Len(NewFrames(c)) : NewFrames(c)[i] = env})

\* The frames c's queue has accepted since the handler took h.mu, this step
\* included, and how many of them are the envelope env.
FramesSinceEntry(c) == SubSeq(enq'[c], AtEntry.mark[c] + 1, Len(enq'[c]))
CountSinceEntry(c, env) ==
  Cardinality({i \in 1..Len(FramesSinceEntry(c)) : FramesSinceEntry(c)[i] = env})

\* A step in which unregisterClient returns having found its client
\* registered.
UnregisterTakesEffect ==
  /\ UnregisterReturns
  /\ hub.op # "unregister" \/ Registered(hub.client)
  /\ panicked' = NoPanic

\* The status steps: registerClient or an effective unregisterClient
\* returns, having broadcast whether the user is online.
StatusStep(online) == IF online THEN RegisterReturns ELSE UnregisterTakesEffect

\* A step of the loop of broadcastStatus, and the key it visits.
BroadcastStep == hub.op \in {"registerBroadcast", "unregisterBroadcast"} /\ hub' # hub
Visited == CHOOSE uname \in hub.todo : hub'.op # hub.op \/ uname \notin hub'.todo

\* C15 as stated: Register enqueues exactly one status{online:true} of the
\* identity on every other registered connection, Unregister of the
\* registered connection exactly one status{online:false}, and neither
\* enqueues it on a connection of the identity itself.
C15_AsStated ==
  [][\A online \in BOOLEAN : StatusStep(online) =>
        \A c \in Conns :
           CountSinceEntry(c, StatusEnv(ConnUser(hub.client), online)) =
              IF ConnUser(c) # ConnUser(hub.client) /\ RegisteredAtEntry(c) THEN 1 ELSE 0]_vars

\* C15 (amended): when Register returns, and when Unregister of the
\* registered connection returns, every other registered connection whose
\* queue had room has been sent exactly one status envelope of the identity
\* (online:true, online:false), every other registered connection whose
\* queue was full has been sent none and has its queue closed and is out of
\* the table, and no connection of the identity itself, nor any connection
\* that is not registered, has been sent that envelope.  Room is what the
\* queue has when broadcastStatus comes to it: that send puts the one
\* envelope on the queue or closes it, and no other step of the handler
\* puts a status envelope of the identity on any queue.
C15_StatusBroadcast ==
  [][/\ \A online \in BOOLEAN : StatusStep(online) =>
          \A c \in Conns :
             LET n == CountSinceEntry(c, StatusEnv(ConnUser(hub.client), online))
             IN IF ConnUser(c) # ConnUser(hub.client) /\ RegisteredAtEntry(c)
                THEN \/ n = 1
                     \/ n = 0 /\ c \in overflowed' /\ closed'[c] /\ ~RegisteredNext(c)
                ELSE n = 0
     /\ BroadcastStep =>
          \A c \in Conns :
             LET n == NewCount(c, StatusEnv(ConnUser(hub.client), hub.op = "registerBroadcast"))
             IN IF Has(Clients, Visited) /\ Clients[Visited] = c
                THEN IF Len(Send[c]) < SendCap
                     THEN n = 1 /\ NewFrames(c) = <<StatusEnv(ConnUser(hub.client),
                                                              hub.op = "registerBroadcast")>>
                     ELSE n = 0 /\ closed'[c] /\ ~RegisteredNext(c)
                ELSE n = 0
     /\ (hub.op \in RegisterOps \cup UnregisterOps /\ ~BroadcastStep) =>
          \A c \in Conns : \A online \in BOOLEAN :
             NewCount(c, StatusEnv(ConnUser(hub.client), online)) = 0]_vars

\* bob's connection has been told that alice is online and, later, that
\* she is offline.
C15_Witness ==
  \E i, j \in 1..Len(enq["b1"]) :
    /\ i < j
    /\ enq["b1"][i] = StatusEnv(alice, TRUE)
    /\ enq["b1"][j] = StatusEnv(alice, FALSE)

\* C16: when registerClient(c) returns, c's queue has been sent exactly one
\* status{online:true} for every other identity that is online with a
\* registered connection, and none for its own identity, for an identity
\* that is offline or for one that has no registered connection.
C16_OnlineSetSentOnce ==
  [][RegisterReturns =>
        \A u \in {alice, bob, carol} :
           LET n == CountSinceEntry(hub.client, StatusEnv(u, TRUE))
               live == /\ u # ConnUser(hub.client)
                       /\ Has(AtEntry.Users, u) /\ AtEntry.Users[u].Online
                       /\ Has(AtEntry.Clients, u)
           IN /\ (live /\ Has(Clients', u)) => n = 1
              /\ ~live => n = 0]_vars

(***************************************************************************)
(* Typing signals.                                                         *)
(***************************************************************************)
\* A step in which handleTypingEvent runs.
TypingRouted == hub.op = "typing" /\ hub'.op = "select"

\* The frames of kind "typing" among those a step appends to c's history.
NewTyping(c) == {i \in 1..Len(NewFrames(c)) : NewFrames(c)[i].type = "typing"}

\* C17: a typing envelope is enqueued only by handleTypingEvent, only on the
\* queue of the connection registered for the recipient at that moment, and
\* then as exactly one typing{from, isTyping} envelope of the event; an event
\* for a recipient that is not registered enqueues nothing, raises no panic
\* and leaves the table, the presence records and the logs unchanged.
C17_TypingOnlyToRegistered ==
  [][/\ \A c \in Conns : NewTyping(c) # {} => TypingRouted
     /\ TypingRouted =>
           /\ \A c \in Conns : NewFrames(c) # <<>> =>
                 /\ Has(Clients, hub.ev.To)
                 /\ c = Clients[hub.ev.To]
                 /\ NewFrames(c) = <<TypingEnv(hub.ev.From, hub.ev.IsTyping)>>
           /\ ~Has(Clients, hub.ev.To) =>
                 /\ UNCHANGED <<Clients, Users, Conversations, Send, closed, enq, browser>>
                 /\ panicked' = NoPanic]_vars

\* Both typing events of a behaviour have been routed: one was enqueued on
\* bob's connection, the other, for a recipient without a connection, on
\* none.
C17_Witness ==
  /\ nTyping = 2 /\ typingEvents = <<>> /\ hub.op = "select"
  /\ overflowed = {}
  /\ \E i \in 1..Len(enq["b1"]) : enq["b1"][i].type = "typing" /\ enq["b1"][i].from = alice
  /\ Cardinality({<<c, i>> \in Conns \X (1..4) : i <= Len(enq[c]) /\ enq[c][i].type = "typing"}) = 1

(***************************************************************************)
(* Conversation logs and the queries on them.                              *)
(***************************************************************************)
\* The names GetConversation is asked about: the identities and the other
\* recipient strings of the wire.
QueryNames == Recipients \cup LogRecipients

\* C18: GetConversationMessages(A, B) and GetConversationMessages(B, A) are
\* the same sequence, for every pair of names and in every reachable state.
C18_ConversationIsSymmetric ==
  \A a, b \in QueryNames : GetConversationMessages(a, b) = GetConversationMessages(b, a)

\* alice and bob have each sent the other a message, and both are in the
\* log of the pair.
C18_Witness ==
  LET log == GetConversationMessages(bob, alice)
  IN \E i, j \in 1..Len(log) :
        /\ log[i].From = alice /\ log[i].To = bob
        /\ log[j].From = bob /\ log[j].To = alice

\* What a stored message was created with; its Status is rewritten when it
\* is delivered.
Created(m) == [ID |-> m.ID, From |-> m.From, To |-> m.To, Content |-> m.Content,
               Timestamp |-> m.Timestamp]

\* The messages handleInboundMessageWithSender has created so far, in the
\* order of its critical sections.
AllRouted == [id \in 1..nextId |-> routes[id].msg]

\* Those of them that a sent b or b sent a.
RoutedBetween(a, b) ==
  SelectSeq(AllRouted, LAMBDA m : (m.From = a /\ m.To = b) \/ (m.From = b /\ m.To = a))

\* C19: for identities A and B, GetConversationMessages(A, B) holds exactly
\* the messages routed from A to B or from B to A, in the order they were
\* routed, their timestamps never decrease along the log, and the log is the
\* empty sequence when there is no such message.
C19_ConversationIsTheRoutedMessages ==
  \A a, b \in Recipients :
    LET log == GetConversationMessages(a, b)
        routed == RoutedBetween(a, b)
    IN /\ Len(log) = Len(routed)
       /\ \A i \in 1..Len(log) : Created(log[i]) = Created(routed[i])
       /\ \A i, j \in 1..Len(log) : i < j => log[i].Timestamp <= log[j].Timestamp
       /\ (routed = <<>>) => (log = <<>>)

\* bob's message and alice's later answer are the log of the pair, while
\* nothing was ever routed between alice and carol.
C19_Witness ==
  LET log == GetConversationMessages(alice, bob)
  IN /\ Len(log) = 2
     /\ log[1].From = bob /\ log[2].From = alice
     /\ log[1].Timestamp < log[2].Timestamp
     /\ GetConversationMessages(alice, carol) = <<>>

\* C20: whatever order the map iteration takes, GetConversations(X) has no
\* two entries with the same PeerUsername, and no entry has a later
\* LastMessageTime than an entry before it.
C20_ListIsDistinctAndNewestFirst ==
  \A username \in QueryNames : \A ord \in Orders(DOMAIN Conversations) :
    LET list == GetConversations(username, ord)
    IN \A i, j \in 1..Len(list) :
         i < j => /\ list[i].PeerUsername # list[j].PeerUsername
                  /\ list[i].LastMessageTime >= list[j].LastMessageTime

\* alice has two conversations with different last message times, and the
\* map iteration yields the older one first, so the sort has to move it.
C20_Witness ==
  \E ord \in Orders(DOMAIN Conversations) :
    LET found == CollectConversations(alice, ord, {}, <<>>)
        list == GetConversations(alice, ord)
    IN /\ Len(found) = 2
       /\ found[1].LastMessageTime < found[2].LastMessageTime
       /\ list[1] = found[2] /\ list[2] = found[1]

\* C21: for identities X and P and whatever order the map iteration takes,
\* GetConversations(X) has exactly one entry with peer P when a message was
\* ever routed from X to P or from P to X, and that entry carries the content
\* and the timestamp of the latest such message and P's Online flag, false
\* when P never registered; it has no entry with peer P otherwise.
C21_ListCoversEveryPeer ==
  \A username \in Recipients : \A ord \in Orders(DOMAIN Conversations) :
    LET list == GetConversations(username, ord)
    IN \A peer \in Recipients :
         LET routed == RoutedBetween(username, peer)
             entries == {i \in 1..Len(list) : list[i].PeerUsername = peer}
         IN IF routed = <<>> THEN entries = {}
            ELSE /\ Cardinality(entries) = 1
                 /\ \A i \in entries :
                       /\ list[i].LastMessagePreview = routed[Len(routed)].Content
                       /\ list[i].LastMessageTime = routed[Len(routed)].Timestamp
                       /\ list[i].PeerOnline = (Has(Users, peer) /\ Users[peer].Online)
                       /\ ~Has(Users, peer) => ~list[i].PeerOnline

\* alice has written to herself and then to bob, who has never registered:
\* her list has both peers, bob first and not online.
C21_Witness ==
  /\ ~Has(Users, bob)
  /\ \E ord \in Orders(DOMAIN Conversations) :
       LET list == GetConversations(alice, ord)
       IN /\ Len(list) = 2
          /\ list[1].PeerUsername = bob /\ ~list[1].PeerOnline
          /\ list[2].PeerUsername = alice /\ list[2].PeerOnline
          /\ list[1].LastMessageTime > list[2].LastMessageTime

(***************************************************************************)
(* SearchUsers.                                                            *)
(***************************************************************************)
\* The fragments and the excluded names of the searches: the empty string,
\* "A", "a", "k", the Kelvin sign and "b"; alice, bob, kay and no one.
SearchQueries == {<<>>, <<65>>, <<97>>, <<107>>, KelvinSign, <<98>>}
SearchExcludes == {alice, bob, kay, <<>>}

\* The identities whose Register has been processed.
EverRegistered ==
  {ConnUser(c) : c \in {x \in Conns : http[x] = "handed" /\ ~(hub.op = "register" /\ hub.client = x)}}

\* The name contains the fragment when letter case is ignored.
ContainsFold(name, fragment) == Contains(ToLower(name), ToLower(fragment))

\* C22: whatever order the map iteration takes, SearchUsers(fragment,
\* exclude) returns, each once and with its Online flag, exactly the
\* identities that ever registered, other than exclude, whose name contains
\* the fragment with letter case ignored; an identity whose second
\* connection replaced its first and is still connected is online.
C22_SearchIsExact ==
  Alive =>
    /\ \A query \in SearchQueries, exclude \in SearchExcludes, ord \in Orders(DOMAIN Users) :
         LET res == SearchUsers(query, exclude, ord)
             expected == {u \in EverRegistered \ {exclude} : ContainsFold(u, query)}
         IN /\ {res[i].Username : i \in 1..Len(res)} = expected
            /\ Len(res) = Cardinality(expected)
            /\ \A i \in 1..Len(res) : res[i].Online = Users[res[i].Username].Online
    /\ \A e \in evictions :
         (e[2] \in installed /\ ~DisconnectedLater(e[2])) => Users[ConnUser(e[2])].Online

(***************************************************************************)
(* Messages for a recipient that is not registered.                        *)
(***************************************************************************)
\* Positions in a queue's history of the message frames of id, whatever
\* their status.
AnyMsgAt(q, id) == {i \in 1..Len(q) : q[i].type = "message" /\ q[i].id = id}

\* C23: for a message routed while its recipient had no registered
\* connection, no connection of the recipient is ever sent a message
\* envelope of it, no ack of it is ever enqueued and its stored Status stays
\* "sent", also after the recipient has registered.
C23_NoCatchUpDelivery ==
  \A id \in DOMAIN routes :
    routes[id].recip = None =>
       /\ \A c \in Conns :
             (ConnUser(c) = routes[id].msg.To /\ ConnUser(c) # routes[id].msg.From) =>
                AnyMsgAt(enq[c], id) = {}
       /\ TotalDelivered(id) = 0
       /\ TotalAcks(id) = 0
       /\ Stored(id).Status = "sent"

\* alice wrote to bob before he registered; the call has returned, bob has
\* registered since and his connection has been sent alice's status only.
C23_Witness ==
  \E id \in DOMAIN routes :
    /\ routes[id].recip = None /\ routes[id].msg.To = bob /\ routes[id].msg.From = alice
    /\ RouteDone(id)
    /\ Registered("b1") /\ hub.op = "select"
    /\ enq["b1"] = <<StatusEnv(alice, TRUE)>>

(***************************************************************************)
(* Progress of the event loop.                                             *)
(***************************************************************************)
\* C24: every Register, Unregister and typing event handed to Hub.Run is
\* processed: the handler the loop has entered returns and the loop is back
\* in its select with the process running, the typing events buffered in
\* h.TypingEvents are all taken, and a reader waiting to send on
\* h.Unregister gets to send; no writer need ever take a frame.
C24_SubmittedEventsAreProcessed ==
  /\ (hub.op # "select") ~> (hub.op = "select" /\ Alive)
  /\ (typingEvents # <<>>) ~> (typingEvents = <<>>)
  /\ (\E c \in Conns : rd[c].pc = "unreg") ~> (\A c \in Conns : rd[c].pc # "unreg")

(***************************************************************************)
(* Delivery notifications.                                                 *)
(***************************************************************************)
\* C25: a message whose ack{delivered} has been enqueued, or whose stored
\* Status is "delivered", has had its message{delivered} envelope accepted
\* by the queue of the recipient's connection.
C25_AckImpliesDelivered ==
  \A id \in DOMAIN routes :
    (TotalAcks(id) > 0 \/ Stored(id).Status = "delivered") =>
       /\ routes[id].recip # None
       /\ MsgAt(enq[routes[id].recip], id, "delivered") # {}

(***************************************************************************)
(* The two pumps of a connection.                                          *)
(***************************************************************************)
\* C26: once the readPump of a connection has returned its writePump
\* returns too, and once the writePump has returned the readPump returns
\* too (a panic ends both with the process).
C26_PumpsEndTogether ==
  /\ \A c \in {"a1", "b1"} : (rd[c].pc = "done") ~> (wr[c].pc = "done" \/ ~Alive)
  /\ \A c \in {"a1", "b1"} : (wr[c].pc = "done") ~> (rd[c].pc = "done" \/ ~Alive)

\* The presence record of the identity says online.
IsOnline(username) == Has(Users, username) /\ Users[username].Online

\* C27: a registered connection whose socket has failed or been closed is
\* in the end out of the table, and then its identity is offline unless
\* another connection of the identity is registered (as long as the process
\* runs).
C27_FailedSocketIsUnregistered ==
  \A c \in {"a1", "b1"} :
    (Registered(c) /\ sock[c] # "open") ~>
      (\/ ~Alive
       \/ /\ ~Registered(c)
          /\ ~IsOnline(ConnUser(c)) \/ HasRegisteredConn(ConnUser(c)))

\* A step that takes a frame from c's closed queue or puts a frame on c's
\* wire while the queue is closed: the head of the queue is taken and, the
\* socket being open, transmitted; with the queue empty the frame is the
\* close frame, after which the pump has returned and the socket is closed.
CancelStep(c) ==
  (closed[c] /\ (Send'[c] # Send[c] \/ wr'[c].wire # wr[c].wire)) =>
    IF Send[c] # <<>>
    THEN /\ Send'[c] = Tail(Send[c])
         /\ wr'[c].wire = IF sock[c] = "open" THEN Append(wr[c].wire, Head(Send[c]))
                                              ELSE wr[c].wire
    ELSE /\ Send'[c] = <<>>
         /\ wr'[c].wire = Append(wr[c].wire, CloseFrame)
         /\ wr'[c].pc = "done"
         /\ sock'[c] = "closed"

\* C28: once a connection's queue is closed its writer transmits the frames
\* that are queued, in order, then the close frame, closes the socket and
\* returns; it never blocks for ever after the close.
C28_CloseCancelsWriter ==
  /\ [][\A c \in {"a1", "b1"} : CancelStep(c)]_vars
  /\ \A c \in {"a1", "b1"} : closed[c] ~> (~Alive \/ (wr[c].pc = "done" /\ sock[c] = "closed"))

\* The frames of w occur in q, in the order of q, each entry of q used at
\* most once.
RECURSIVE Embeds(_, _)
Embeds(w, q) ==
  IF w = <<>> THEN TRUE
  ELSE IF q = <<>> THEN FALSE
  ELSE IF Head(w) = Head(q) THEN Embeds(Tail(w), Tail(q))
  ELSE Embeds(w, Tail(q))

\* The frames on c's wire other than the close frame.
Transmitted(c) == SelectSeq(wr[c].wire, LAMBDA f : f # CloseFrame)

\* A step that takes frames from c's queue is a step of c's writePump, which
\* puts them on the wire one by one in the order of the queue, or puts none
\* of them there when the write fails.
TakenByWriter(c) ==
  TakenMeanwhile(c) # <<>> =>
    /\ wr'[c] # wr[c]
    /\ wr'[c].wire \in {wr[c].wire \o TakenMeanwhile(c), wr[c].wire}

\* C29: the frames a connection's writer transmits are frames enqueued on
\* its queue, in enqueue order, each at most once and each as a frame of its
\* own, and only the writer takes a frame from the queue.
C29_WireFollowsQueue ==
  /\ [](\A c \in {"a1", "b1"} : Embeds(Transmitted(c), enq[c]))
  /\ [][\A c \in {"a1", "b1"} : TakenByWriter(c)]_vars

\* The message m, stored in a log, is the message n of the same place one
\* step later: only its Status may differ, and then it went from "sent" to
\* "delivered".
SameStored(m, n) ==
  /\ n.ID = m.ID
  /\ n.From = m.From
  /\ n.To = m.To
  /\ n.Content = m.Content
  /\ n.Timestamp = m.Timestamp
  /\ n.Status = m.Status \/ (m.Status = "sent" /\ n.Status = "delivered")

\* The step keeps every log and every message stored in it.
AppendOnly ==
  \A key \in DOMAIN Conversations :
    /\ key \in DOMAIN Conversations'
    /\ Len(Conversations'[key]) >= Len(Conversations[key])
    /\ \A i \in 1..Len(Conversations[key]) :
         SameStored(Conversations[key][i], Conversations'[key][i])

\* C30: every conversation log is append-only: across every step a log is a
\* prefix of its later value up to the Status of its messages, whose other
\* fields never change, and a Status changes only from "sent" to
\* "delivered".
C30_LogsAreAppendOnly == [][AppendOnly]_vars

\* A log holds a message marked "delivered" and a message appended after it.
C30_Witness ==
  \E key \in DOMAIN Conversations :
    /\ Len(Conversations[key]) >= 2
    /\ Conversations[key][1].Status = "delivered"

\* The paths GET /api/conversations/{peerUsername} is called with in
\* SpecKeys, and the peers HandleGetConversation asks the hub for: the
\* trimmed path, unless it is empty (400).
KeyPaths == {alice, carol, <<32, 99>>} \cup KeyRecipients
KeyNames == {TrimSpace(path) : path \in KeyPaths} \ {<<>>}

\* The messages of the log are messages between a and b.
LogIsBetween(log, a, b) == \A i \in 1..Len(log) : {log[i].From, log[i].To} = {a, b}

\* C31: the log returned for a user and a peer holds only messages whose
\* sender and recipient are those two, whatever senders and recipient
\* strings the messages were routed with.
C31_LogHoldsOnePair ==
  \A a \in {alice, carol}, b \in KeyNames : LogIsBetween(GetConversationMessages(a, b), a, b)

\* C32: a message envelope with an empty recipient is refused before it is
\* routed: no log holds a message addressed to the empty string, no queue was
\* given an envelope of one, and the connection that sent it stays open.
C32_EmptyRecipientIsRejected ==
  /\ \A key \in DOMAIN Conversations :
       \A i \in 1..Len(Conversations[key]) : Conversations[key][i].To # <<>>
  /\ \A c \in {"a1", "c1"} :
       \A i \in 1..Len(enq[c]) : enq[c][i].type = "message" => enq[c][i].to # <<>>
  /\ \A id \in DOMAIN routes : routes[id].msg.To = <<>> => sock[routes[id].conn] = "open"

\* The frames C33 is about: a frame that is no JSON text, an envelope of a
\* kind readPump has no case for, and a message or typing envelope whose
\* payload its struct does not accept.
Malformed(frame) ==
  \/ ~frame.json
  \/ frame.type \notin {"message", "typing"}
  \/ frame.payload \notin {"object", "null"}

\* c's reader has skipped a frame in this step.
SkipsFrame(c) == rd'[c].skipped # rd[c].skipped

\* C33: a frame that is unparseable, has a malformed payload or an unknown
\* kind is skipped, and skipping a frame leaves the reader at its next read,
\* the socket open, and the table, the presence records, the logs and every
\* queue as they were.
C33_MalformedFrameIsSkipped ==
  [][/\ \A frame \in InboundFrames : Malformed(frame) => Dispatch(frame) = "skip"
     /\ \A c \in {"a1", "b1"} :
          SkipsFrame(c) =>
            /\ rd'[c].pc = "read"
            /\ sock'[c] = "open"
            /\ closed' = closed
            /\ <<Clients, Users, Conversations, Send, enq, typingEvents>>' =
                 <<Clients, Users, Conversations, Send, enq, typingEvents>>]_vars

\* A registered connection with a frame in its queue has skipped a frame,
\* and a message is in a log.
C33_Witness ==
  /\ Registered("a1")
  /\ rd["a1"].skipped > 0
  /\ Send["a1"] # <<>>
  /\ Conversations # EmptyMap

\* The step in which registerClient or unregisterClient takes h.mu and
\* updates the table and the presence record.
PresenceStep == hub.op \in {"register", "unregister"} /\ hub' # hub

\* C34: the presence records change only in the steps of registerClient and
\* unregisterClient, and there only the record of the identity registered or
\* unregistered: routing a message or a typing signal and removing a
\* connection whose queue is full leave every Online and LastSeen as it was.
C34_PresenceOnlyByRegistration ==
  [][IF PresenceStep
     THEN \A u \in DOMAIN Users :
            u # ConnUser(hub.client) => u \in DOMAIN Users' /\ Users'[u] = Users[u]
     ELSE Users' = Users]_vars

\* A message and a typing signal have been routed and a connection was
\* removed for its full queue, its user's record still saying online.
C34_Witness ==
  /\ nextId > 0
  /\ nTyping > 0
  /\ \E c \in overflowed : ~Registered(c) /\ IsOnline(ConnUser(c))

\* C35: a connection that passed the admission check and was upgraded is
\* installed in the table by registerClient in the end, and is never dropped
\* because Hub.Run was not waiting for it.
C35_RegisterAlwaysSucceeds ==
  /\ [](\A c \in {"a1", "b1"} : http[c] # "dropped")
  /\ \A c \in {"a1", "b1"} : (http[c] = "upgraded") ~> (c \in installed \/ ~Alive)

\* Hub.Run waits in its select and no reader is inside
\* handleInboundMessageWithSender.
Quiescent ==
  /\ hub.op = "select"
  /\ \A c \in Conns : rd[c].pc \in {"off", "read", "unreg", "done"}

\* The presence record of username agrees with the table.
PresenceMatchesTable(username) ==
  /\ Users[username].Online <=> Has(Clients, username)
  /\ Users[username].CurrentConn = Lookup(Clients, username)

\* C36: while no register, unregister or routing operation is in progress,
\* an identity is online exactly if the table holds a connection for it, and
\* the CurrentConn of its presence record is that table entry, nil when it is
\* offline.
C36_PresenceMatchesTable ==
  Quiescent =>
    /\ \A username \in DOMAIN Clients : Has(Users, username)
    /\ \A username \in DOMAIN Users : PresenceMatchesTable(username)

\* The identities whose table entry a step removes or replaces.
Displaced == {u \in DOMAIN Clients : ~Has(Clients', u) \/ Clients'[u] # Clients[u]}

\* The step is registerClient or unregisterClient for the identity u.
RegistrationOf(u) == PresenceStep /\ ConnUser(hub.client) = u

\* C37: a connection leaves the table, other than by a register or an
\* unregister of its identity, only as the connection whose own queue
\* overflowed: a delivery attempt on a connection that is no longer the
\* registered one never deletes the newer connection of the same identity.
C37_OnlyOverflowingIsRemoved ==
  [][\A u \in Displaced : RegistrationOf(u) \/ Clients[u] \in overflowed']_vars

\* The envelope is the send confirmation or the ack of message id.
ConfirmsMessage(env, id) ==
  \/ env.type = "message" /\ env.id = id /\ env.status = "sent"
  \/ env.type = "ack" /\ env.messageId = id

\* C38: the send confirmation and the ack of a message are enqueued only on
\* the connection whose reader received the message, never on another
\* connection of the same identity.
C38_ConfirmationToReadingConnection ==
  \A id \in DOMAIN routes : \A c \in {"a1", "a2", "b1"} :
    \A i \in 1..Len(enq[c]) : ConfirmsMessage(enq[c][i], id) => c = routes[id].conn

\* The envelopes i and j of c's queue history are message envelopes of two
\* messages of one conversation log.
SameLog(c, i, j) ==
  /\ enq[c][i].type = "message"
  /\ enq[c][j].type = "message"
  /\ routes[enq[c][i].id].key = routes[enq[c][j].id].key

\* C39: the message envelopes of two messages of one conversation log are
\* enqueued on a participant's queue in the order the messages have in the
\* log, however the readers of the two participants interleave.
C39_EnvelopesInLogOrder ==
  \A c \in {"a1", "b1"} : \A i, j \in 1..Len(enq[c]) :
    (i < j /\ SameLog(c, i, j)) => routes[enq[c][i].id].idx <= routes[enq[c][j].id].idx

\* C40: once disconnect() has been called, the WebSocketClient creates no
\* socket any more, whether disconnect() found a socket open, a socket
\* connecting, or a reconnect timer pending.
C40_NoSocketAfterDisconnect ==
  [][browser.disconnected => Len(browser'.sockets) = Len(browser.sockets)]_vars
====
